---- MODULE Spec2Model ----
(***************************************************************************)
(* Simulation core of space-invaders-js: the fixed-timestep GameLoop, the  *)
(* WaveManager, the pooled ProjectileManager and the stand-alone           *)
(* Projectile entities.                                                    *)
(*                                                                         *)
(* Times are integers.  A game loop configured in whole milliseconds adds, *)
(* subtracts and compares times exactly.  DEFAULT_CONFIG (updateInterval   *)
(* 1000/60 ms, maxDeltaTime 1000/30 ms) is kept in units of 1000/120 ms as *)
(* the pair (2, 4); its accumulator is a rounded floating-point sum, which *)
(* may lie just below the exact one where the loop compares it with        *)
(* updateInterval.  alpha = accumulator / updateInterval is kept as its    *)
(* numerator.                                                              *)
(***************************************************************************)
EXTENDS Integers, Sequences, FiniteSets, TLC

\* ------------------------------------------------------------------ bounds
MaxTime == 3            \* timestamps (performance.now(), rAF) range over 0..MaxTime
MaxInterval == 2        \* config.updateInterval ranges over 1..MaxInterval
MaxDelta == 2           \* config.maxDeltaTime ranges over 1..MaxDelta
MaxFrameSkip == 2       \* config.maxFrameSkip ranges over 1..MaxFrameSkip
MaxAccumulator == 4     \* ticks are explored while |accumulator| <= MaxAccumulator
MaxPending == 2         \* at most this many animation frames are requested at once
MaxDifficulty == 3      \* WaveManager's initialDifficulty ranges over 1..MaxDifficulty
MaxWave == 4            \* startNextWave is explored while currentWave < MaxWave
MaxWaveDelta == 2       \* WaveManager.update's deltaTime ranges over 0..MaxWaveDelta
PoolSize == 2           \* config.poolSize, the capacity of the projectile pool (100 in the code)
MaxLifetime == 2        \* config.lifetime ranges over 1..MaxLifetime (3000 ms in the code)
MaxProjDelta == 1       \* ProjectileManager.update's deltaTime ranges over 0..MaxProjDelta
MaxClock == 3           \* Date.now() ranges over 0..MaxClock (units of 1000 ms)
MaxShotLifetime == 2    \* a lifetime option ranges over 0..MaxShotLifetime (0: not given)
MaxMaxLevel == 4        \* a custom config.maxLevel ranges over baseLevel..MaxMaxLevel
MaxBaseLevel == 2       \* a custom config.baseLevel ranges over 1..MaxBaseLevel
MaxDiffInterval == 2    \* a custom config.timeInterval ranges over 1..MaxDiffInterval
MaxDiffClock == 4       \* DifficultyManager's Date.now() ranges over 0..MaxDiffClock
MaxDiffDelta == 2       \* DifficultyManager.update's deltaTime ranges over 0..MaxDiffDelta
MaxTimePlayed == 4      \* update is explored while state.timePlayed <= MaxTimePlayed
MaxSubscribers == 1     \* subscribe is explored up to this many callbacks
MaxCoord == 2           \* shape positions range over 0..MaxCoord on each axis
MaxSize == 2            \* widths, heights and radii range over -1..MaxSize
MaxBound == 3           \* boundaryLeft, boundaryRight, boundaryBottom range over 0..MaxBound
MaxSpeed == 2           \* an enemy's speed ranges over 0..MaxSpeed
MaxEnemyDelta == 2      \* Enemy.update's deltaTime ranges over -1..MaxEnemyDelta
MaxMovementTime == 2    \* updatePosition is explored while time <= MaxMovementTime
MaxThrust == 1          \* a valid thrust ranges over 0..MaxThrust (units of 0.04)
MaxVelocity == 1250     \* applyThrust is explored while |dx|, |dy| <= MaxVelocity
MaxShipBound == 1       \* bounds.maxX and bounds.maxY (bounds.minX = bounds.minY = 0)
MaxShipDelta == 1       \* PlayerShip.update's deltaTime ranges over -1..MaxShipDelta
MaxControllerDelta == 1     \* MovementController.update's deltaTime ranges over 0..MaxControllerDelta
MaxControllerVelocity == 72 \* MovementController.update is explored while |velocity.x|, |velocity.y| <= MaxControllerVelocity
MaxControllerPosition == 128 \* MovementController.update is explored while |position.x|, |position.y| <= MaxControllerPosition
MaxScore == 1           \* scores and points range over 0..MaxScore
MaxStored == 3          \* a stored high-score list has at most MaxStored entries
MaxHighScores == 2      \* config.maxHighScores ranges over 0..MaxHighScores
MaxListeners == 2       \* at most MaxListeners listeners are registered with a manager
MaxTransitions == 2     \* changeState is explored while fewer than MaxTransitions calls of it are awaiting
MaxLoads == 2           \* loadAsset starts a load while fewer than MaxLoads loads were started
MaxCallers == 3         \* loadAsset is explored while fewer than MaxCallers calls of it were made
maxCacheSize == 2       \* ResourceLoader.maxCacheSize, 100 in the source, scaled down
MaxResourceClock == 2   \* Date.now() as the ResourceLoader reads it runs over 0..MaxResourceClock
FadeSteps == 2          \* the steps of a fade, 60 in the source, scaled down
MaxFades == 2           \* a fade is started while fewer than MaxFades fade timers run
MaxHowls == 2           \* loadMusic is called while fewer than MaxHowls Howls were created
MaxPlayerClock == 5     \* Date.now() as the Player reads it runs up to MaxPlayerClock
MaxPlayerPosition == 2  \* Player.update is explored while the position stays within 0..MaxPlayerPosition
MaxProjectiles == 2     \* createProjectile is explored while fewer than MaxProjectiles were created
MaxPsClock == 3         \* Date.now() as the ProjectileSystem reads it runs over 0..MaxPsClock
MaxPsRange == 2         \* overridden ranges run over 1..MaxPsRange
MaxPsLifetime == 2      \* overridden lifetimes run over 1..MaxPsLifetime


\* ---------------------------------------------------------------- GameLoop
VARIABLES
    config,           \* GameLoop.config
    isRunning,        \* GameLoop.isRunning
    lastTime,         \* GameLoop.lastTime
    accumulator,      \* GameLoop.accumulator
    updateCallback,   \* TRUE when GameLoop.updateCallback is set
    renderCallback,   \* TRUE when GameLoop.renderCallback is set
    pendingFrames,    \* number of requestAnimationFrame(this.tick) requests not yet fired
    lastCall          \* what the last GameLoop call did: the callbacks it invoked

loopVars == <<config, isRunning, lastTime, accumulator, updateCallback,
              renderCallback, pendingFrames, lastCall>>

\* ------------------------------------------------------------- WaveManager
VARIABLES
    initialDifficulty,  \* WaveManager.initialDifficulty
    currentWave,        \* WaveManager.currentWave
    isWaveActive,       \* WaveManager.isWaveActive
    spawnTimer,         \* WaveManager.spawnTimer
    activeEnemies,      \* WaveManager.activeEnemies
    waveConfigs,        \* WaveManager.waveConfigs
    waveCall            \* what the last WaveManager call did and returned

waveVars == <<initialDifficulty, currentWave, isWaveActive, spawnTimer,
              activeEnemies, waveConfigs, waveCall>>

\* ------------------------------------------------------- ProjectileManager
VARIABLES
    pmConfig,       \* ProjectileManager.config
    poolLive,       \* TRUE when ObjectPool.getActiveObjects() hands out the pool's own array
    poolActive,     \* the slots ObjectPool holds as acquired (its active set)
    poolOrder,      \* the acquired slots in the order of the pool's array
    projectiles,    \* the pooled Projectile instances, by slot
    pmCall          \* what the last ProjectileManager call did

pmVars == <<pmConfig, poolLive, poolActive, poolOrder, projectiles, pmCall>>

\* ------------------------------------------- stand-alone Projectile classes
\* Two runs, A and B, receive the same calls and differ only in how much
\* wall-clock time (Date.now()) passes between the calls.
VARIABLES
    impl,         \* the Projectile class in use: "Projectile.ts" or "part_003"
    wallClock,    \* Date.now() in each run, in units of 1000 ms
    shot,         \* the Projectile instance of each run
    shotCall      \* what the last call on the projectile was

shotVars == <<impl, wallClock, shot, shotCall>>

\* ------------------------------------------------------- DifficultyManager
\* Times are in units of 30000 ms: the default timeInterval (60000 ms) is 2.
VARIABLES
    diffConfig,         \* DifficultyManager.config
    diffState,          \* DifficultyManager.state
    lastUpdateTime,     \* DifficultyManager.lastUpdateTime
    subscribers,        \* number of callbacks in DifficultyManager.subscribers
    diffNow,            \* Date.now()
    diffCall            \* what the last DifficultyManager call did

diffVars == <<diffConfig, diffState, lastUpdateTime, subscribers, diffNow, diffCall>>

\* ------------------------------------------- CollisionSystem and Collider
VARIABLES
    shapeA,             \* the first shape handed to a collision test
    shapeB,             \* the second shape handed to a collision test
    collCall            \* the last collision test made on them and its outcome

collVars == <<shapeA, shapeB, collCall>>

\* ------------------------------------------------------------------ Enemy
\* Positions are in pixels and times in units of 1000 ms, so that the
\* timeStep of update (deltaTime / 1000) is deltaTime.
VARIABLES
    movementConfig,     \* Enemy.movementConfig
    enemy,              \* Enemy.position, Enemy.velocity and Enemy.direction
    enemyCall           \* what the last Enemy call did

enemyVars == <<movementConfig, enemy, enemyCall>>

\* ---------------------------------------------------- EnemyMovementSystem
VARIABLES
    movement,           \* EnemyMovementSystem.config and EnemyMovementSystem.time
    createdPattern,     \* the pattern the system was constructed with
    movementCall        \* what the last EnemyMovementSystem call did and returned

movementVars == <<movement, createdPattern, movementCall>>

\* -------------------------------------------------------------- PlayerShip
\* Velocities are in units of 0.000016 per second, truncated toward zero, so
\* that the stop threshold 0.01 is 625; positions are in the same unit, times
\* in units of 1000 ms, thrust in units of 0.04, rotation in units of 0.0001
\* radians and rotate's direction in units of 0.001.
VARIABLES
    ship,               \* PlayerShip.position, velocity, rotation, bounds, isMoving
    shipCall            \* the last PlayerShip call and the thrust applied since the last update

shipVars == <<ship, shipCall>>

\* ------------------------------------------------------ MovementController
\* Velocities and positions are in units of 0.0001, so that the stop
\* threshold 0.01 is 100; config.deceleration is in hundredths, rotations are
\* in units of 0.0001 radians as for the PlayerShip.
VARIABLES
    controller,         \* MovementController.position, velocity, rotation, config
    controllerCall      \* the last MovementController call

controllerVars == <<controller, controllerCall>>

\* ------------------------------------------ score managers and listeners
\* The classes that keep a score or notify listeners share these variables;
\* managerImpl tells which class the object is of:
\*   "ScoreManager.ts"  the list-based ScoreManager (src/systems/ScoreManager.ts)
\*   "part_000"         the singleton ScoreManager with a multiplier
\*   "part_006"         the ScoreManager with score events
\*   "ScoreDisplay"     the ScoreDisplay of part_008
\*   "InputManager"     the InputManager of part_001
VARIABLES
    managerImpl,        \* the class of the object
    found,              \* the localStorage item the constructor found under the manager's key
    storage,            \* the localStorage item under the manager's key
    manager,            \* the object's fields
    listeners,          \* the registered listeners, in registration order
    managerCall         \* the last call, its outcome and the listeners it invoked

managerVars == <<managerImpl, found, storage, manager, listeners, managerCall>>

\* ------------------------------------------------------------ StateManager
VARIABLES
    stateManager,       \* StateManager._states (names), _currentStateName, _isTransitioning
    transitions,        \* the changeState calls that are awaiting exit() or enter()
    smCall              \* the last step of the StateManager and what it called

smVars == <<stateManager, transitions, smCall>>

\* ------------------------------------------------------------- AssetLoader
VARIABLES
    assetLoader,        \* AssetLoader._cache (ids), _loadingPromises (url -> load), _errorHandlers
    loadPromises,       \* the promises returned by _loadAssetByType, in the order they were made
    callers             \* the promises returned by loadAsset, in the order of the calls

assetVars == <<assetLoader, loadPromises, callers>>

\* ---------------------------------------------------------- ResourceLoader
VARIABLES
    resourceLoader,     \* ResourceLoader.cache (in insertion order) and loadingAssets
    resourceClock,      \* Date.now(), as it was read last and is read next
    resourceCall        \* the last step of the ResourceLoader

resourceVars == <<resourceLoader, resourceClock, resourceCall>>

\* ------------------------------------------------------------ AudioManager
VARIABLES
    audio,              \* AudioManager.musicTracks (ids), currentMusic, nextMusic, currentVolume, isFading
    howls,              \* the Howl objects created so far, in the order of creation
    fades,              \* the fade timers running, in the order they were started
    audioCall           \* the last step of the AudioManager

audioVars == <<audio, howls, fades, audioCall>>

\* ------------------------------------------------------------------ Player
VARIABLES
    player,             \* Player.position, velocity, lastShootTime and which shootSound it has
    playerClock,        \* Date.now()
    playerCall          \* the last call on the Player and what it returned

playerVars == <<player, playerClock, playerCall>>

\* -------------------------------------------------------- ProjectileSystem
VARIABLES
    projectileSystem,   \* ProjectileSystem.projectiles (by id, in the order created), lastUpdateTime
    psClock,            \* Date.now()
    psCall              \* the last call on the ProjectileSystem, what it returned, and the ids
                        \* earlier update() calls returned

psVars == <<projectileSystem, psClock, psCall>>

\* -------------------------------------------------------- KeyboardControls
VARIABLES
    keyboard,           \* KeyboardControls.state, config and whether its listeners are attached
    held,               \* the key codes that had a keydown event with no later keyup event
    keyboardCall        \* the last call or event of the KeyboardControls

keyboardVars == <<keyboard, held, keyboardCall>>

vars == <<loopVars, waveVars, pmVars, shotVars, diffVars, collVars, enemyVars, movementVars, shipVars, controllerVars, managerVars, smVars, assetVars, resourceVars, audioVars, playerVars, psVars, keyboardVars>>

\* DEFAULT_CONFIG, in units of 1000/120 ms (fps is not read by the loop);
\* exact tells whether sums of the configuration's times are exact in
\* floating point, which those of 1000/60 are not.
DEFAULT_CONFIG ==
    [maxDeltaTime |-> 4, updateInterval |-> 2, maxFrameSkip |-> 5, exact |-> FALSE]

\* The configurations explored: the default one and every small one given
\* in whole milliseconds.
Configs ==
    {DEFAULT_CONFIG} \cup
    [maxDeltaTime : 1..MaxDelta, updateInterval : 1..MaxInterval,
     maxFrameSkip : 1..MaxFrameSkip, exact : {TRUE}]

Times == 0..MaxTime

Min(a, b) == IF a <= b THEN a ELSE b

\* What the callbacks do during one tick: the index of the update call that
\* calls stop() (0: none), the index of the update call that throws (0: none),
\* and what the render callback does.  A tick makes at most maxFrameSkip
\* update calls.  roundedDown tells that an accumulator whose exact value is
\* updateInterval is a floating-point sum just below it.
Behaviours(cfg) ==
    [stopAt : 0..Min(cfg.maxFrameSkip, MaxFrameSkip),
     throwAt : 0..Min(cfg.maxFrameSkip, MaxFrameSkip),
     render : {"ok", "stop", "throw"},
     roundedDown : IF cfg.exact THEN {FALSE} ELSE BOOLEAN]

\* accumulator >= updateInterval
intervalBanked(cfg, acc, beh) ==
    acc > cfg.updateInterval \/ (acc = cfg.updateInterval /\ ~beh.roundedDown)

NoCall ==
    [op |-> "none", running |-> FALSE, updates |-> <<>>, rendered |-> FALSE,
     alphaAcc |-> 0, requested |-> FALSE, thrown |-> "none",
     stopAt |-> 0, renderStop |-> FALSE, roundedDown |-> FALSE]

\* Mutants of DrainLoop: no cap on the number of steps; an exception swallowed
\* inside the loop; a loop that ends as soon as a callback has called stop().
RECURSIVE DrainLoopNoCap(_, _, _, _)
DrainLoopNoCap(cfg, acc, calls, beh) ==
    IF intervalBanked(cfg, acc, beh)
    THEN IF beh.throwAt = Len(calls) + 1
         THEN [accumulator |-> acc,
               updates |-> Append(calls, cfg.updateInterval), thrown |-> TRUE]
         ELSE DrainLoopNoCap(cfg, acc - cfg.updateInterval,
                             Append(calls, cfg.updateInterval), beh)
    ELSE [accumulator |-> acc, updates |-> calls, thrown |-> FALSE]

RECURSIVE DrainLoopSwallow(_, _, _, _)
DrainLoopSwallow(cfg, acc, calls, beh) ==
    IF intervalBanked(cfg, acc, beh) /\ Len(calls) < cfg.maxFrameSkip
    THEN IF beh.throwAt = Len(calls) + 1
         THEN [accumulator |-> acc,
               updates |-> Append(calls, cfg.updateInterval), thrown |-> FALSE]
         ELSE DrainLoopSwallow(cfg, acc - cfg.updateInterval,
                               Append(calls, cfg.updateInterval), beh)
    ELSE [accumulator |-> acc, updates |-> calls, thrown |-> FALSE]

RECURSIVE DrainLoopPreemptive(_, _, _, _)
DrainLoopPreemptive(cfg, acc, calls, beh) ==
    IF /\ intervalBanked(cfg, acc, beh)
       /\ Len(calls) < cfg.maxFrameSkip
       /\ ~(beh.stopAt \in 1..Len(calls))
    THEN IF beh.throwAt = Len(calls) + 1
         THEN [accumulator |-> acc,
               updates |-> Append(calls, cfg.updateInterval), thrown |-> TRUE]
         ELSE DrainLoopPreemptive(cfg, acc - cfg.updateInterval,
                                  Append(calls, cfg.updateInterval), beh)
    ELSE [accumulator |-> acc, updates |-> calls, thrown |-> FALSE]

\* The while loop of tick: calls update(updateInterval) while a whole interval
\* is banked and fewer than maxFrameSkip calls were made; a throwing call
\* leaves the accumulator as it was and ends the loop.  isRunning is not read
\* by the loop, so a stop() made by a callback does not end it.
RECURSIVE DrainLoop(_, _, _, _)
DrainLoop(cfg, acc, calls, beh) ==
    IF intervalBanked(cfg, acc, beh) /\ Len(calls) < cfg.maxFrameSkip
    THEN IF beh.throwAt = Len(calls) + 1
         THEN [accumulator |-> acc,
               updates |-> Append(calls, cfg.updateInterval), thrown |-> TRUE]
         ELSE DrainLoop(cfg, acc - cfg.updateInterval,
                        Append(calls, cfg.updateInterval), beh)
    ELSE [accumulator |-> acc, updates |-> calls, thrown |-> FALSE]

GameLoopInit ==
    /\ config \in Configs
    /\ isRunning = FALSE
    /\ lastTime = 0
    /\ accumulator = 0
    /\ updateCallback = FALSE
    /\ renderCallback = FALSE
    /\ pendingFrames = 0
    /\ lastCall = NoCall

SetUpdateCallback ==
    /\ updateCallback' = TRUE
    /\ lastCall' = [NoCall EXCEPT !.op = "setUpdateCallback", !.running = isRunning]
    /\ UNCHANGED <<config, isRunning, lastTime, accumulator, renderCallback, pendingFrames>>

SetRenderCallback ==
    /\ renderCallback' = TRUE
    /\ lastCall' = [NoCall EXCEPT !.op = "setRenderCallback", !.running = isRunning]
    /\ UNCHANGED <<config, isRunning, lastTime, accumulator, updateCallback, pendingFrames>>

\* Mutant of Start: restarts the timing and requests a frame even when running.
StartRestarts(now) ==
    IF ~updateCallback \/ ~renderCallback
    THEN /\ lastCall' = [NoCall EXCEPT !.op = "start", !.running = isRunning,
                                       !.thrown = "start"]
         /\ UNCHANGED <<config, isRunning, lastTime, accumulator, updateCallback,
                        renderCallback, pendingFrames>>
    ELSE /\ pendingFrames < MaxPending
         /\ isRunning' = TRUE
         /\ lastTime' = now
         /\ accumulator' = 0
         /\ pendingFrames' = pendingFrames + 1
         /\ lastCall' = [NoCall EXCEPT !.op = "start", !.running = isRunning,
                                       !.requested = TRUE]
         /\ UNCHANGED <<config, updateCallback, renderCallback>>

\* start(): throws when a callback is unset; otherwise starts the loop unless
\* it is already running.  now is performance.now().
Start(now) ==
    IF ~updateCallback \/ ~renderCallback
    THEN /\ lastCall' = [NoCall EXCEPT !.op = "start", !.running = isRunning,
                                       !.thrown = "start"]
         /\ UNCHANGED <<config, isRunning, lastTime, accumulator, updateCallback,
                        renderCallback, pendingFrames>>
    ELSE IF ~isRunning
    THEN /\ pendingFrames < MaxPending
         /\ isRunning' = TRUE
         /\ lastTime' = now
         /\ accumulator' = 0
         /\ pendingFrames' = pendingFrames + 1
         /\ lastCall' = [NoCall EXCEPT !.op = "start", !.running = FALSE,
                                       !.requested = TRUE]
         /\ UNCHANGED <<config, updateCallback, renderCallback>>
    ELSE /\ lastCall' = [NoCall EXCEPT !.op = "start", !.running = TRUE]
         /\ UNCHANGED <<config, isRunning, lastTime, accumulator, updateCallback,
                        renderCallback, pendingFrames>>

\* stop()
Stop ==
    /\ isRunning' = FALSE
    /\ lastCall' = [NoCall EXCEPT !.op = "stop", !.running = isRunning]
    /\ UNCHANGED <<config, lastTime, accumulator, updateCallback, renderCallback,
                   pendingFrames>>

\* tick(currentTime): one requested animation frame fires.
Tick(currentTime, beh) ==
    /\ pendingFrames > 0
    /\ IF ~isRunning
       THEN /\ pendingFrames' = pendingFrames - 1
            /\ lastCall' = [NoCall EXCEPT !.op = "tick", !.running = FALSE]
            /\ UNCHANGED <<config, isRunning, lastTime, accumulator,
                           updateCallback, renderCallback>>
       ELSE LET deltaTime == Min(currentTime - lastTime, config.maxDeltaTime)
                loop == DrainLoop(config, accumulator + deltaTime, <<>>, beh)
                stopAt == IF beh.stopAt \in 1..Len(loop.updates) THEN beh.stopAt ELSE 0
                updateThrew == beh.throwAt \in 1..Len(loop.updates)
                renderThrows == ~loop.thrown /\ beh.render = "throw"
                renderStops == ~loop.thrown /\ beh.render = "stop"
                requested == ~loop.thrown /\ ~renderThrows
            IN  /\ accumulator + deltaTime \in -MaxAccumulator..MaxAccumulator
                /\ lastTime' = currentTime
                /\ accumulator' = loop.accumulator
                /\ isRunning' = ~(loop.thrown \/ renderThrows \/ renderStops \/ stopAt # 0)
                /\ pendingFrames' = IF requested THEN pendingFrames ELSE pendingFrames - 1
                /\ lastCall' =
                     [op |-> "tick", running |-> TRUE, updates |-> loop.updates,
                      rendered |-> ~loop.thrown,
                      alphaAcc |-> IF loop.thrown THEN 0 ELSE loop.accumulator,
                      requested |-> requested,
                      thrown |-> IF updateThrew THEN "update"
                                 ELSE IF renderThrows THEN "render" ELSE "none",
                      stopAt |-> stopAt, renderStop |-> renderStops,
                      roundedDown |-> beh.roundedDown]
                /\ UNCHANGED <<config, updateCallback, renderCallback>>


\* ------------------------------------------------------------- WaveManager

Formations == {"LINE", "V_SHAPE", "CIRCLE", "RANDOM"}

EnemyIds == {"enemy1", "enemy2"}

\* initializeWaveConfigs: the table holds waves 1 and 2 only.  difficulty is
\* kept in tenths (initialDifficulty * 1.2 is 12 tenths of initialDifficulty).
initializeWaveConfigs(difficulty) ==
    (1 :> [enemyCount |-> 5, enemyTypes |-> {"BASIC"}, spawnInterval |-> 1000,
           formation |-> "LINE", difficulty |-> difficulty * 10]) @@
    (2 :> [enemyCount |-> 8, enemyTypes |-> {"BASIC", "FAST"}, spawnInterval |-> 800,
           formation |-> "V_SHAPE", difficulty |-> difficulty * 12])

\* spawnEnemiesInFormation: the four formation spawners are empty; an unknown
\* formation throws, which is caught and deactivates the wave.  The value is
\* isWaveActive after the call.
spawnEnemiesInFormation(cfg) == cfg.formation \in Formations

NoWaveCall ==
    [op |-> "none", ret |-> FALSE, thrown |-> FALSE, wasActive |-> FALSE,
     waveBefore |-> 0, completed |-> 0]

WaveInit ==
    /\ initialDifficulty \in 1..MaxDifficulty
    /\ currentWave = 0
    /\ isWaveActive = FALSE
    /\ spawnTimer = 0
    /\ activeEnemies = {}
    /\ waveConfigs = initializeWaveConfigs(initialDifficulty)
    /\ waveCall = NoWaveCall

\* Mutant of StartNextWave: the isWaveActive guard is missing.
StartNextWaveUnguarded ==
    /\ currentWave < MaxWave
    /\ currentWave' = currentWave + 1
    /\ IF currentWave + 1 \in DOMAIN waveConfigs
       THEN /\ isWaveActive' = spawnEnemiesInFormation(waveConfigs[currentWave + 1])
            /\ spawnTimer' = 0
            /\ waveCall' = [NoWaveCall EXCEPT !.op = "startNextWave", !.ret = TRUE,
                               !.wasActive = isWaveActive, !.waveBefore = currentWave]
       ELSE /\ waveCall' = [NoWaveCall EXCEPT !.op = "startNextWave", !.ret = FALSE,
                               !.wasActive = isWaveActive, !.waveBefore = currentWave]
            /\ UNCHANGED <<isWaveActive, spawnTimer>>
    /\ UNCHANGED <<initialDifficulty, activeEnemies, waveConfigs>>

\* startNextWave(): false when a wave is active; otherwise the counter is
\* advanced first, and a missing configuration throws inside the try block,
\* which the catch turns into false.
StartNextWave ==
    IF isWaveActive
    THEN /\ waveCall' = [NoWaveCall EXCEPT !.op = "startNextWave", !.ret = FALSE,
                            !.wasActive = TRUE, !.waveBefore = currentWave]
         /\ UNCHANGED <<initialDifficulty, currentWave, isWaveActive, spawnTimer,
                        activeEnemies, waveConfigs>>
    ELSE /\ currentWave < MaxWave
         /\ currentWave' = currentWave + 1
         /\ IF currentWave + 1 \in DOMAIN waveConfigs
            THEN /\ isWaveActive' = spawnEnemiesInFormation(waveConfigs[currentWave + 1])
                 /\ spawnTimer' = 0
                 /\ waveCall' = [NoWaveCall EXCEPT !.op = "startNextWave", !.ret = TRUE,
                                    !.waveBefore = currentWave]
            ELSE /\ waveCall' = [NoWaveCall EXCEPT !.op = "startNextWave", !.ret = FALSE,
                                    !.waveBefore = currentWave]
                 /\ UNCHANGED <<isWaveActive, spawnTimer>>
         /\ UNCHANGED <<initialDifficulty, activeEnemies, waveConfigs>>

\* Mutant of WaveUpdate: checkWaveCompletion runs the hook but leaves the wave
\* active.
WaveUpdateStaysActive(deltaTime) ==
    IF ~isWaveActive
    THEN /\ waveCall' = [NoWaveCall EXCEPT !.op = "update", !.waveBefore = currentWave]
         /\ UNCHANGED <<initialDifficulty, currentWave, isWaveActive, spawnTimer,
                        activeEnemies, waveConfigs>>
    ELSE /\ spawnTimer' = spawnTimer + deltaTime
         /\ waveCall' = [NoWaveCall EXCEPT !.op = "update", !.wasActive = TRUE,
                            !.waveBefore = currentWave,
                            !.completed = IF activeEnemies = {} THEN 1 ELSE 0]
         /\ UNCHANGED <<initialDifficulty, currentWave, isWaveActive, activeEnemies,
                        waveConfigs>>

\* update(deltaTime), with checkWaveCompletion and the onWaveComplete hook.
WaveUpdate(deltaTime) ==
    IF ~isWaveActive
    THEN /\ waveCall' = [NoWaveCall EXCEPT !.op = "update", !.waveBefore = currentWave]
         /\ UNCHANGED <<initialDifficulty, currentWave, isWaveActive, spawnTimer,
                        activeEnemies, waveConfigs>>
    ELSE /\ spawnTimer' = spawnTimer + deltaTime
         /\ isWaveActive' = (activeEnemies # {})
         /\ waveCall' = [NoWaveCall EXCEPT !.op = "update", !.wasActive = TRUE,
                            !.waveBefore = currentWave,
                            !.completed = IF activeEnemies = {} THEN 1 ELSE 0]
         /\ UNCHANGED <<initialDifficulty, currentWave, activeEnemies, waveConfigs>>

\* onEnemyDestroyed(enemyId)
OnEnemyDestroyed(enemyId) ==
    /\ activeEnemies' = activeEnemies \ {enemyId}
    /\ waveCall' = [NoWaveCall EXCEPT !.op = "onEnemyDestroyed",
                       !.wasActive = isWaveActive, !.waveBefore = currentWave]
    /\ UNCHANGED <<initialDifficulty, currentWave, isWaveActive, spawnTimer, waveConfigs>>

\* ------------------------------------------------------- ProjectileManager
\* Position and velocity of a pooled projectile are not kept: they are read
\* only by the collision system, whose answer is an input of Update.

Slots == 1..PoolSize

\* new Projectile()
NewProjectile == [isActive |-> FALSE, lifetime |-> 0, elapsedTime |-> 0, damage |-> 0]

\* Projectile.init
ProjectileInit(damage, lifetime) ==
    [isActive |-> TRUE, lifetime |-> lifetime, elapsedTime |-> 0, damage |-> damage]

\* Mutant of ProjectileUpdate: expiry tested with > instead of >=.
ProjectileUpdateLate(p, deltaTime) ==
    IF ~p.isActive THEN p
    ELSE [p EXCEPT !.elapsedTime = p.elapsedTime + deltaTime,
                   !.isActive = ~(p.elapsedTime + deltaTime > p.lifetime)]

\* Projectile.update(deltaTime)
ProjectileUpdate(p, deltaTime) ==
    IF ~p.isActive THEN p
    ELSE [p EXCEPT !.elapsedTime = p.elapsedTime + deltaTime,
                   !.isActive = ~(p.elapsedTime + deltaTime >= p.lifetime)]

\* Projectile.deactivate
ProjectileDeactivate(p) == [p EXCEPT !.isActive = FALSE]

\* ObjectPool.acquire: the instances it may hand out, none when exhausted.
PoolAcquirable(active) == Slots \ active

\* ObjectPool.release: releasing an instance that is not acquired is a no-op.
PoolRelease(active, slot) == active \ {slot}

\* ObjectPool.release on the pool's array of acquired instances.
PoolReleaseFrom(order, released) == SelectSeq(order, LAMBDA slot : slot \notin released)

\* ObjectPool.reset
PoolReset(active) == {}

\* The directions spawnProjectile is given: a vector, or no object at all
\* (normalizeVector then throws on reading vector.x).
Directions == {"vector", "undefined"}

NoPmCall ==
    [op |-> "none", deltaTime |-> 0, activeBefore |-> 0, acquired |-> 0,
     initialised |-> FALSE, emitted |-> {}, thrown |-> FALSE, caught |-> FALSE,
     updated |-> {}, collided |-> {}, expired |-> {}]

\* The constructor.  ObjectPool is not among the sources: getActiveObjects()
\* either hands out a copy of the array of acquired instances or the array
\* itself, which release() then shortens under the forEach that walks it
\* (poolLive).
ProjectileManagerInit ==
    /\ pmConfig = [speed |-> 200, damage |-> 10, lifetime |-> MaxLifetime,
                   poolSize |-> PoolSize]
    /\ poolLive \in BOOLEAN
    /\ poolActive = {}
    /\ poolOrder = <<>>
    /\ projectiles = [slot \in Slots |-> NewProjectile]
    /\ pmCall = NoPmCall

\* Mutant of SpawnProjectile: 'projectileSpawned' is emitted before the
\* exhaustion check.
SpawnProjectileEmitsFirst(direction) ==
    /\ IF PoolAcquirable(poolActive) = {}
       THEN /\ pmCall' = [NoPmCall EXCEPT !.op = "spawnProjectile",
                             !.activeBefore = Cardinality(poolActive),
                             !.emitted = {"projectileSpawned"}]
            /\ UNCHANGED <<pmConfig, poolLive, poolActive, poolOrder, projectiles>>
       ELSE \E slot \in PoolAcquirable(poolActive) :
            /\ poolActive' = poolActive \cup {slot}
            /\ poolOrder' = Append(poolOrder, slot)
            /\ projectiles' = [projectiles EXCEPT
                                 ![slot] = ProjectileInit(pmConfig.damage, pmConfig.lifetime)]
            /\ pmCall' = [NoPmCall EXCEPT !.op = "spawnProjectile",
                             !.activeBefore = Cardinality(poolActive),
                             !.acquired = slot, !.initialised = TRUE,
                             !.emitted = {"projectileSpawned"}]
            /\ UNCHANGED <<pmConfig, poolLive>>

\* spawnProjectile(position, direction): an exhausted pool ends the call
\* before anything else; otherwise the instance is acquired first, and an
\* exception of normalizeVector is caught with the instance left acquired,
\* not initialised, and nothing emitted.
SpawnProjectile(direction) ==
    /\ IF PoolAcquirable(poolActive) = {}
       THEN /\ pmCall' = [NoPmCall EXCEPT !.op = "spawnProjectile",
                             !.activeBefore = Cardinality(poolActive)]
            /\ UNCHANGED <<pmConfig, poolLive, poolActive, poolOrder, projectiles>>
       ELSE \E slot \in PoolAcquirable(poolActive) :
            /\ poolActive' = poolActive \cup {slot}
            /\ poolOrder' = Append(poolOrder, slot)
            /\ IF direction = "undefined"
               THEN /\ pmCall' = [NoPmCall EXCEPT !.op = "spawnProjectile",
                                     !.activeBefore = Cardinality(poolActive),
                                     !.acquired = slot, !.caught = TRUE]
                    /\ UNCHANGED projectiles
               ELSE /\ projectiles' = [projectiles EXCEPT
                                         ![slot] = ProjectileInit(pmConfig.damage, pmConfig.lifetime)]
                    /\ pmCall' = [NoPmCall EXCEPT !.op = "spawnProjectile",
                                     !.activeBefore = Cardinality(poolActive),
                                     !.acquired = slot, !.initialised = TRUE,
                                     !.emitted = {"projectileSpawned"}]
            /\ UNCHANGED <<pmConfig, poolLive>>

\* The instances the forEach of update visits, from index i of the array it
\* walks: on a copy every acquired instance; on the pool's own array the
\* release of the instance at index i moves the next one to index i, which
\* the forEach has then passed.
RECURSIVE pmVisited(_, _, _, _)
pmVisited(order, i, deltaTime, hits) ==
    IF i > Len(order) THEN {}
    ELSE {order[i]} \cup
         IF /\ poolLive
            /\ \/ ~ProjectileUpdate(projectiles[order[i]], deltaTime).isActive
               \/ order[i] \in hits
         THEN pmVisited(PoolReleaseFrom(order, {order[i]}), i + 1, deltaTime, hits)
         ELSE pmVisited(order, i + 1, deltaTime, hits)

\* update(deltaTime) with checkCollisions: every visited projectile is
\* updated; one that is no longer active is released, one that is still
\* active is collision-checked.  hits are the slots for which
\* collisionSystem.checkProjectileCollisions returns a non-empty list.
PmUpdate(deltaTime, hits) ==
    LET visited == pmVisited(poolOrder, 1, deltaTime, hits)
        updated == [slot \in Slots |->
                      IF slot \in visited
                      THEN ProjectileUpdate(projectiles[slot], deltaTime)
                      ELSE projectiles[slot]]
        expired == {slot \in visited : ~updated[slot].isActive}
        collided == {slot \in visited : updated[slot].isActive /\ slot \in hits}
    IN  /\ projectiles' = [slot \in Slots |->
                             IF slot \in collided
                             THEN ProjectileDeactivate(updated[slot])
                             ELSE updated[slot]]
        /\ poolActive' = poolActive \ (expired \cup collided)
        /\ poolOrder' = PoolReleaseFrom(poolOrder, expired \cup collided)
        /\ pmCall' = [NoPmCall EXCEPT !.op = "update", !.deltaTime = deltaTime,
                         !.activeBefore = Cardinality(poolActive),
                         !.emitted = IF collided = {} THEN {} ELSE {"projectileCollision"},
                         !.updated = visited,
                         !.collided = collided, !.expired = expired]
        /\ UNCHANGED <<pmConfig, poolLive>>

\* reset(): the pool is reset; the projectiles themselves are not touched.
PmReset ==
    /\ poolActive' = PoolReset(poolActive)
    /\ poolOrder' = <<>>
    /\ pmCall' = [NoPmCall EXCEPT !.op = "reset", !.activeBefore = Cardinality(poolActive)]
    /\ UNCHANGED <<pmConfig, poolLive, projectiles>>

\* cleanupProjectiles(), run on 'enemyDestroyed': every visited projectile is
\* deactivated and released, so on the pool's own array the forEach visits
\* every other instance.
CleanupProjectiles ==
    LET visited == IF poolLive
                   THEN {poolOrder[i] : i \in {j \in 1..Len(poolOrder) : j % 2 = 1}}
                   ELSE poolActive
    IN  /\ projectiles' = [slot \in Slots |->
                             IF slot \in visited
                             THEN ProjectileDeactivate(projectiles[slot])
                             ELSE projectiles[slot]]
        /\ poolActive' = poolActive \ visited
        /\ poolOrder' = PoolReleaseFrom(poolOrder, visited)
        /\ pmCall' = [NoPmCall EXCEPT !.op = "cleanupProjectiles",
                         !.activeBefore = Cardinality(poolActive)]
        /\ UNCHANGED <<pmConfig, poolLive>>

\* updateConfig({lifetime})
PmUpdateConfig(lifetime) ==
    /\ pmConfig' = [pmConfig EXCEPT !.lifetime = lifetime]
    /\ pmCall' = [NoPmCall EXCEPT !.op = "updateConfig",
                     !.activeBefore = Cardinality(poolActive)]
    /\ UNCHANGED <<poolLive, poolActive, poolOrder, projectiles>>

\* ------------------------------------------- stand-alone Projectile classes
\* Positions are not kept: neither class reads them back.

Runs == {"A", "B"}

Impls == {"Projectile.ts", "part_003"}

\* PROJECTILE_CONFIG of entities/Projectile.ts, times in units of 1000 ms.
PROJECTILE_CONFIG ==
    [DEFAULT_SPEED |-> 500, DEFAULT_LIFETIME |-> 3, DEFAULT_DAMAGE |-> 10,
     MIN_SPEED |-> 100, MAX_SPEED |-> 2000]

\* PROJECTILE_DEFAULTS of part_003, times in units of 1000 ms.
PROJECTILE_DEFAULTS == [MAX_LIFETIME |-> 5, DEFAULT_DAMAGE |-> 10]

\* entities/Projectile.ts: constructor (options.lifetime || DEFAULT_LIFETIME)
ShotConstruct(options, now) ==
    [active |-> TRUE, createdAt |-> now,
     lifetime |-> IF options.lifetime = 0 THEN PROJECTILE_CONFIG.DEFAULT_LIFETIME
                  ELSE options.lifetime,
     onHit |-> options.onHit, hits |-> 0]

\* entities/Projectile.ts: isExpired
ShotIsExpired(p, now) == now - p.createdAt >= p.lifetime

\* entities/Projectile.ts: update(deltaTime)
ShotUpdate(p, deltaTime, now) ==
    IF ~p.active THEN p
    ELSE IF ShotIsExpired(p, now) THEN [p EXCEPT !.active = FALSE]
    ELSE p

\* Mutant of ShotHandleCollision: the active guard is missing.
ShotHandleCollisionUnguarded(p, onHitThrows) ==
    [p EXCEPT !.hits = IF p.onHit THEN @ + 1 ELSE @, !.active = FALSE]

\* entities/Projectile.ts: handleCollision(target).  hits counts the onHit
\* invocations; an exception of onHit is caught and the projectile is
\* deactivated all the same.
ShotHandleCollision(p, onHitThrows) ==
    IF ~p.active THEN p
    ELSE [p EXCEPT !.hits = IF p.onHit THEN @ + 1 ELSE @, !.active = FALSE]

\* part_003: constructor (config.lifetime || MAX_LIFETIME)
EnemyShotConstruct(cfg, now) ==
    [state |-> "active", creationTime |-> now,
     lifetime |-> IF cfg.lifetime = 0 THEN PROJECTILE_DEFAULTS.MAX_LIFETIME
                  ELSE cfg.lifetime,
     hits |-> 0]

\* part_003: hasExpired
EnemyShotHasExpired(p, now) == now - p.creationTime >= p.lifetime

\* part_003: update(deltaTime); EXPIRED is overwritten by destroy() at once.
EnemyShotUpdate(p, deltaTime, now) ==
    IF p.state # "active" THEN p
    ELSE IF EnemyShotHasExpired(p, now) THEN [p EXCEPT !.state = "destroyed"]
    ELSE p

\* part_003: onCollision(other).  hits counts the takeDamage calls; destroy()
\* runs whether or not takeDamage throws.
EnemyShotOnCollision(p, hasTakeDamage, takeDamageThrows) ==
    IF p.state # "active" THEN p
    ELSE [p EXCEPT !.hits = IF hasTakeDamage THEN @ + 1 ELSE @,
                   !.state = "destroyed"]

\* part_003: destroy(), which is public
EnemyShotDestroy(p) == [p EXCEPT !.state = "destroyed"]

\* isActive() of either class
ShotIsActive(p) == IF impl = "Projectile.ts" THEN p.active ELSE p.state = "active"

NoShotCall ==
    [op |-> "none", wasActive |-> [run \in Runs |-> FALSE], effect |-> FALSE]

ShotInit ==
    /\ impl \in Impls
    /\ wallClock = [run \in Runs |-> 0]
    /\ \E lifetime \in 0..MaxShotLifetime, onHit \in BOOLEAN :
          shot = [run \in Runs |->
                    IF impl = "Projectile.ts"
                    THEN ShotConstruct([lifetime |-> lifetime, onHit |-> onHit], 0)
                    ELSE EnemyShotConstruct([lifetime |-> lifetime], 0)]
    /\ shotCall = NoShotCall

\* Date.now() advances in one run.
ClockAdvance(run, d) ==
    /\ wallClock[run] + d <= MaxClock
    /\ wallClock' = [wallClock EXCEPT ![run] = @ + d]
    /\ UNCHANGED <<impl, shot, shotCall>>

\* new Projectile(options) of entities/Projectile.ts, in both runs
NewShot(lifetime, onHit) ==
    /\ impl = "Projectile.ts"
    /\ shot' = [run \in Runs |->
                  ShotConstruct([lifetime |-> lifetime, onHit |-> onHit], wallClock[run])]
    /\ shotCall' = [NoShotCall EXCEPT !.op = "new"]
    /\ UNCHANGED <<impl, wallClock>>

\* update(deltaTime) of entities/Projectile.ts, in both runs
ShotUpdateStep(deltaTime) ==
    /\ impl = "Projectile.ts"
    /\ shot' = [run \in Runs |-> ShotUpdate(shot[run], deltaTime, wallClock[run])]
    /\ shotCall' = [NoShotCall EXCEPT !.op = "update",
                       !.wasActive = [run \in Runs |-> shot[run].active]]
    /\ UNCHANGED <<impl, wallClock>>

\* handleCollision(target) of entities/Projectile.ts, in both runs
ShotCollisionStep(onHitThrows) ==
    /\ impl = "Projectile.ts"
    /\ shot' = [run \in Runs |-> ShotHandleCollision(shot[run], onHitThrows)]
    /\ shotCall' = [NoShotCall EXCEPT !.op = "collision",
                       !.wasActive = [run \in Runs |-> shot[run].active],
                       !.effect = shot["A"].onHit]
    /\ UNCHANGED <<impl, wallClock>>

\* new Projectile(config) of part_003, in both runs
NewEnemyShot(lifetime) ==
    /\ impl = "part_003"
    /\ shot' = [run \in Runs |->
                  EnemyShotConstruct([lifetime |-> lifetime], wallClock[run])]
    /\ shotCall' = [NoShotCall EXCEPT !.op = "new"]
    /\ UNCHANGED <<impl, wallClock>>

\* update(deltaTime) of part_003, in both runs
EnemyShotUpdateStep(deltaTime) ==
    /\ impl = "part_003"
    /\ shot' = [run \in Runs |-> EnemyShotUpdate(shot[run], deltaTime, wallClock[run])]
    /\ shotCall' = [NoShotCall EXCEPT !.op = "update",
                       !.wasActive = [run \in Runs |-> shot[run].state = "active"]]
    /\ UNCHANGED <<impl, wallClock>>

\* onCollision(other) of part_003, in both runs
EnemyShotCollisionStep(hasTakeDamage, takeDamageThrows) ==
    /\ impl = "part_003"
    /\ shot' = [run \in Runs |->
                  EnemyShotOnCollision(shot[run], hasTakeDamage, takeDamageThrows)]
    /\ shotCall' = [NoShotCall EXCEPT !.op = "collision",
                       !.wasActive = [run \in Runs |-> shot[run].state = "active"],
                       !.effect = hasTakeDamage]
    /\ UNCHANGED <<impl, wallClock>>

\* destroy() of part_003, in both runs
EnemyShotDestroyStep ==
    /\ impl = "part_003"
    /\ shot' = [run \in Runs |-> EnemyShotDestroy(shot[run])]
    /\ shotCall' = [NoShotCall EXCEPT !.op = "destroy",
                       !.wasActive = [run \in Runs |-> shot[run].state = "active"]]
    /\ UNCHANGED <<impl, wallClock>>

\* ------------------------------------------------------- DifficultyManager

\* DEFAULT_CONFIG.difficultySteps; enemySpeed, spawnRate and scoreMultiplier
\* are kept in tenths.
DIFFICULTY_STEPS ==
    << [level |-> 1, enemySpeed |-> 10, enemyHealth |-> 100, spawnRate |-> 10,
        scoreMultiplier |-> 10],
       [level |-> 2, enemySpeed |-> 12, enemyHealth |-> 120, spawnRate |-> 12,
        scoreMultiplier |-> 12],
       [level |-> 3, enemySpeed |-> 14, enemyHealth |-> 140, spawnRate |-> 14,
        scoreMultiplier |-> 14] >>

\* DEFAULT_CONFIG of the difficulty module (scalingFactor is read by
\* getDifficultyMultiplier only).
DIFFICULTY_DEFAULT_CONFIG ==
    [baseLevel |-> 1, maxLevel |-> 10, timeInterval |-> 2,
     difficultySteps |-> DIFFICULTY_STEPS]

\* { ...DEFAULT_CONFIG, ...config } for the configurations validateConfig
\* accepts: baseLevel >= 1 and maxLevel >= baseLevel.
DifficultyConfigs ==
    {DIFFICULTY_DEFAULT_CONFIG} \cup
    {[DIFFICULTY_DEFAULT_CONFIG EXCEPT !.baseLevel = b, !.maxLevel = m, !.timeInterval = t] :
        b \in 1..MaxBaseLevel, m \in 1..MaxMaxLevel, t \in 1..MaxDiffInterval}

validateConfig(cfg) ==
    /\ cfg.baseLevel >= 1
    /\ cfg.maxLevel >= cfg.baseLevel
    /\ Len(cfg.difficultySteps) > 0

\* The value findDifficultyStep gives when no step has the level (undefined).
NoStep == [level |-> 0]

\* findDifficultyStep(level): the first step of the table with that level.
findDifficultyStep(cfg, level) ==
    LET hits == {i \in 1..Len(cfg.difficultySteps) : cfg.difficultySteps[i].level = level}
    IN  IF hits = {} THEN NoStep
        ELSE cfg.difficultySteps[CHOOSE i \in hits : \A j \in hits : i <= j]

\* Mutant of progressDifficulty: the maxLevel test is missing.
progressDifficultyUncapped(cfg, st) ==
    IF st.isMaxDifficulty THEN st
    ELSE LET nextLevel == st.currentLevel + 1
             nextStep == findDifficultyStep(cfg, nextLevel)
         IN  IF nextStep # NoStep
             THEN [st EXCEPT !.currentLevel = nextLevel, !.currentStep = nextStep]
             ELSE st

\* progressDifficulty(): the state after the call.
progressDifficulty(cfg, st) ==
    IF st.isMaxDifficulty THEN st
    ELSE LET nextLevel == st.currentLevel + 1
             nextStep == findDifficultyStep(cfg, nextLevel)
         IN  IF nextLevel > cfg.maxLevel
             THEN [st EXCEPT !.isMaxDifficulty = TRUE]
             ELSE IF nextStep # NoStep
                  THEN [st EXCEPT !.currentLevel = nextLevel, !.currentStep = nextStep]
                  ELSE st

\* The state the constructor and reset() build.
DifficultyInitialState(cfg) ==
    [currentLevel |-> cfg.baseLevel, currentStep |-> cfg.difficultySteps[1],
     timePlayed |-> 0, isMaxDifficulty |-> FALSE]

NoDiffCall ==
    [op |-> "none", thrown |-> FALSE, notified |-> 0, now |-> 0, elapsed |-> 0,
     before |-> DifficultyInitialState(DIFFICULTY_DEFAULT_CONFIG)]

DifficultyInit ==
    /\ diffConfig \in {cfg \in DifficultyConfigs : validateConfig(cfg)}
    /\ diffState = DifficultyInitialState(diffConfig)
    /\ diffNow = 0
    /\ lastUpdateTime = diffNow
    /\ subscribers = 0
    /\ diffCall = NoDiffCall

\* Date.now() moves on between calls.
DiffClockAdvance(d) ==
    /\ diffNow + d <= MaxDiffClock
    /\ diffNow' = diffNow + d
    /\ UNCHANGED <<diffConfig, diffState, lastUpdateTime, subscribers, diffCall>>

\* subscribe(callback)
DiffSubscribe ==
    /\ subscribers < MaxSubscribers
    /\ subscribers' = subscribers + 1
    /\ diffCall' = [NoDiffCall EXCEPT !.op = "subscribe", !.before = diffState]
    /\ UNCHANGED <<diffConfig, diffState, lastUpdateTime, diffNow>>

\* Mutant of DiffUpdate: the interval is measured on state.timePlayed, the
\* cumulative deltaTime, and not on Date.now().
DiffUpdateByTimePlayed(deltaTime, callbackThrows) ==
    LET played == [diffState EXCEPT !.timePlayed = @ + deltaTime]
        due == /\ diffState.timePlayed < diffConfig.timeInterval
               /\ played.timePlayed >= diffConfig.timeInterval
    IN  /\ played.timePlayed <= MaxTimePlayed
        /\ diffState' = IF due THEN progressDifficulty(diffConfig, played) ELSE played
        /\ UNCHANGED lastUpdateTime
        /\ diffCall' = [op |-> "update", thrown |-> subscribers > 0 /\ callbackThrows,
                        notified |-> subscribers, now |-> diffNow,
                        elapsed |-> diffNow - lastUpdateTime,
                        before |-> diffState]
        /\ UNCHANGED <<diffConfig, subscribers, diffNow>>

\* update(deltaTime): timePlayed is accumulated; the difficulty progresses when
\* Date.now() is timeInterval or more past lastUpdateTime.  A throwing
\* subscriber makes update throw after the state was changed.
DiffUpdate(deltaTime, callbackThrows) ==
    LET played == [diffState EXCEPT !.timePlayed = @ + deltaTime]
        currentTime == diffNow
        due == currentTime - lastUpdateTime >= diffConfig.timeInterval
    IN  /\ played.timePlayed <= MaxTimePlayed
        /\ diffState' = IF due THEN progressDifficulty(diffConfig, played) ELSE played
        /\ lastUpdateTime' = IF due THEN currentTime ELSE lastUpdateTime
        /\ diffCall' = [op |-> "update", thrown |-> subscribers > 0 /\ callbackThrows,
                        notified |-> subscribers, now |-> diffNow,
                        elapsed |-> currentTime - lastUpdateTime,
                        before |-> diffState]
        /\ UNCHANGED <<diffConfig, subscribers, diffNow>>

\* reset()
DiffReset(callbackThrows) ==
    /\ diffState' = DifficultyInitialState(diffConfig)
    /\ lastUpdateTime' = diffNow
    /\ diffCall' = [op |-> "reset", thrown |-> subscribers > 0 /\ callbackThrows,
                    notified |-> subscribers, now |-> diffNow,
                        elapsed |-> diffNow - lastUpdateTime,
                    before |-> diffState]
    /\ UNCHANGED <<diffConfig, subscribers, diffNow>>

\* ------------------------------------------- CollisionSystem and Collider

Max(a, b) == IF a >= b THEN a ELSE b

Positions == [x : 0..MaxCoord, y : 0..MaxCoord]

Sizes == (-1)..MaxSize

\* BoundingBox and Circle values, degenerate ones included.
Shapes ==
    [kind : {"box"}, position : Positions, width : Sizes, height : Sizes] \cup
    [kind : {"circle"}, position : Positions, radius : Sizes]

\* validateBoundingBox(box): TRUE when it returns, FALSE when it throws.
validateBoundingBox(box) == ~(box.width <= 0 \/ box.height <= 0)

\* validateCircle(circle): TRUE when it returns, FALSE when it throws.
validateCircle(circle) == ~(circle.radius <= 0)

\* The number num / sqrt(den2); 0 / sqrt(0) is NaN.
Quotient(num, den2) == [nan |-> den2 = 0, num |-> num, den2 |-> den2]

\* The number (sum - sqrt(den2)) * normal; NaN when the normal is.
Scaled(sum, normal) == [nan |-> normal.nan, sum |-> sum, normal |-> normal]

\* Mutant of checkAABBCollision: the y axis is not tested.
checkAABBCollisionXOnly(boxA, boxB) ==
    IF ~(validateBoundingBox(boxA) /\ validateBoundingBox(boxB))
    THEN [thrown |-> TRUE, hasCollision |-> FALSE]
    ELSE [thrown |-> FALSE,
          hasCollision |-> /\ boxA.position.x < boxB.position.x + boxB.width
                           /\ boxA.position.x + boxA.width > boxB.position.x]

\* CollisionSystem.checkAABBCollision(boxA, boxB)
checkAABBCollision(boxA, boxB) ==
    IF ~(validateBoundingBox(boxA) /\ validateBoundingBox(boxB))
    THEN [thrown |-> TRUE, hasCollision |-> FALSE]
    ELSE LET collision ==
                 /\ boxA.position.x < boxB.position.x + boxB.width
                 /\ boxA.position.x + boxA.width > boxB.position.x
                 /\ boxA.position.y < boxB.position.y + boxB.height
                 /\ boxA.position.y + boxA.height > boxB.position.y
         IN  IF ~collision
             THEN [thrown |-> FALSE, hasCollision |-> FALSE]
             ELSE [thrown |-> FALSE, hasCollision |-> TRUE,
                   intersectionDepth |->
                       [x |-> Min(boxA.position.x + boxA.width - boxB.position.x,
                                  boxB.position.x + boxB.width - boxA.position.x),
                        y |-> Min(boxA.position.y + boxA.height - boxB.position.y,
                                  boxB.position.y + boxB.height - boxA.position.y)],
                   normal |->
                       [x |-> IF boxA.position.x < boxB.position.x THEN -1 ELSE 1,
                        y |-> IF boxA.position.y < boxB.position.y THEN -1 ELSE 1]]

\* Mutant of checkCircleCollision: circles that touch are reported as colliding.
checkCircleCollisionTouching(circleA, circleB) ==
    IF ~(validateCircle(circleA) /\ validateCircle(circleB))
    THEN [thrown |-> TRUE, hasCollision |-> FALSE]
    ELSE LET dx == circleB.position.x - circleA.position.x
             dy == circleB.position.y - circleA.position.y
             sumRadii == circleA.radius + circleB.radius
         IN  [thrown |-> FALSE, hasCollision |-> dx * dx + dy * dy <= sumRadii * sumRadii,
              intersectionDepth |->
                  [x |-> Scaled(sumRadii, Quotient(dx, dx * dx + dy * dy)),
                   y |-> Scaled(sumRadii, Quotient(dy, dx * dx + dy * dy))],
              normal |-> [x |-> Quotient(dx, dx * dx + dy * dy),
                          y |-> Quotient(dy, dx * dx + dy * dy)]]

\* CollisionSystem.checkCircleCollision(circleA, circleB).  Both radii are
\* positive past validation, so distance >= sumRadii is compared on squares.
checkCircleCollision(circleA, circleB) ==
    IF ~(validateCircle(circleA) /\ validateCircle(circleB))
    THEN [thrown |-> TRUE, hasCollision |-> FALSE]
    ELSE LET dx == circleB.position.x - circleA.position.x
             dy == circleB.position.y - circleA.position.y
             distance2 == dx * dx + dy * dy
             sumRadii == circleA.radius + circleB.radius
             normal == [x |-> Quotient(dx, distance2), y |-> Quotient(dy, distance2)]
         IN  IF distance2 >= sumRadii * sumRadii
             THEN [thrown |-> FALSE, hasCollision |-> FALSE]
             ELSE [thrown |-> FALSE, hasCollision |-> TRUE,
                   intersectionDepth |-> [x |-> Scaled(sumRadii, normal.x),
                                          y |-> Scaled(sumRadii, normal.y)],
                   normal |-> normal]

\* The ColliderConfig a shape stands for (offset and isTrigger not given; a
\* field that is not given reads as 0 in the tests below).
ColliderConfigOf(shape) ==
    IF shape.kind = "box"
    THEN [type |-> "box", radius |-> 0, width |-> shape.width, height |-> shape.height]
    ELSE [type |-> "circle", radius |-> shape.radius, width |-> 0, height |-> 0]

\* Collider.validateConfig(config): TRUE when it returns, FALSE when it
\* throws.  !config.radius is true of 0 and of a missing value only.
ColliderValidateConfig(cfg) ==
    /\ ~(cfg.type = "circle" /\ cfg.radius = 0)
    /\ ~(cfg.type = "box" /\ (cfg.width = 0 \/ cfg.height = 0))

\* new Collider(config), for a configuration validateConfig accepts.
NewCollider(cfg) ==
    [type |-> cfg.type, offset |-> [x |-> 0, y |-> 0], isTrigger |-> FALSE,
     radius |-> cfg.radius,
     boundingBox |-> [x |-> 0, y |-> 0, width |-> cfg.width, height |-> cfg.height]]

\* Collider.updatePosition(position)
ColliderUpdatePosition(c, position) ==
    [c EXCEPT !.boundingBox.x = position.x + c.offset.x,
              !.boundingBox.y = position.y + c.offset.y]

\* Collider.checkBoxCollision(other)
checkBoxCollision(this, other) ==
    /\ this.boundingBox.x < other.boundingBox.x + other.boundingBox.width
    /\ this.boundingBox.x + this.boundingBox.width > other.boundingBox.x
    /\ this.boundingBox.y < other.boundingBox.y + other.boundingBox.height
    /\ this.boundingBox.y + this.boundingBox.height > other.boundingBox.y

\* distance < limit for distance = sqrt(distance2).
SqrtLess(distance2, limit) == limit > 0 /\ distance2 < limit * limit

\* Collider.checkCircleCollision(other)
ColliderCheckCircleCollision(this, other) ==
    LET dx == (this.boundingBox.x + this.radius) - (other.boundingBox.x + other.radius)
        dy == (this.boundingBox.y + this.radius) - (other.boundingBox.y + other.radius)
    IN  SqrtLess(dx * dx + dy * dy, this.radius + other.radius)

\* Collider.checkBoxCircleCollision(other)
checkBoxCircleCollision(this, other) ==
    LET box == IF this.type = "box" THEN this ELSE other
        circle == IF this.type = "circle" THEN this ELSE other
        closestX == Max(box.boundingBox.x,
                        Min(circle.boundingBox.x + circle.radius,
                            box.boundingBox.x + box.boundingBox.width))
        closestY == Max(box.boundingBox.y,
                        Min(circle.boundingBox.y + circle.radius,
                            box.boundingBox.y + box.boundingBox.height))
        dx == (circle.boundingBox.x + circle.radius) - closestX
        dy == (circle.boundingBox.y + circle.radius) - closestY
    IN  SqrtLess(dx * dx + dy * dy, circle.radius)

\* Collider.checkCollision(other)
checkCollision(this, other) ==
    IF this.type = "box" /\ other.type = "box" THEN checkBoxCollision(this, other)
    ELSE IF this.type = "circle" /\ other.type = "circle"
         THEN ColliderCheckCircleCollision(this, other)
         ELSE checkBoxCircleCollision(this, other)

NoCollCall == [op |-> "none", thrown |-> FALSE, hasCollision |-> FALSE]

CollisionInit ==
    /\ shapeA \in Shapes
    /\ shapeB \in Shapes
    /\ collCall = NoCollCall

\* collisionSystem.checkAABBCollision(shapeA, shapeB) on two boxes
CheckAABB ==
    /\ shapeA.kind = "box" /\ shapeB.kind = "box"
    /\ collCall' = [op |-> "checkAABBCollision"] @@ checkAABBCollision(shapeA, shapeB)
    /\ UNCHANGED <<shapeA, shapeB>>

\* collisionSystem.checkCircleCollision(shapeA, shapeB) on two circles
CheckCircle ==
    /\ shapeA.kind = "circle" /\ shapeB.kind = "circle"
    /\ collCall' = [op |-> "checkCircleCollision"] @@ checkCircleCollision(shapeA, shapeB)
    /\ UNCHANGED <<shapeA, shapeB>>

\* A collider is constructed for each shape and moved to the shape's
\* position, and the first is checked against the second.
CheckColliders ==
    LET cfgA == ColliderConfigOf(shapeA)
        cfgB == ColliderConfigOf(shapeB)
        a == ColliderUpdatePosition(NewCollider(cfgA), shapeA.position)
        b == ColliderUpdatePosition(NewCollider(cfgB), shapeB.position)
    IN  /\ collCall' =
               IF ColliderValidateConfig(cfgA) /\ ColliderValidateConfig(cfgB)
               THEN [op |-> "Collider.checkCollision", thrown |-> FALSE,
                     hasCollision |-> checkCollision(a, b)]
               ELSE [op |-> "Collider.checkCollision", thrown |-> TRUE,
                     hasCollision |-> FALSE]
        /\ UNCHANGED <<shapeA, shapeB>>

\* ------------------------------------------------------------------ Enemy

EnemyMovementPattern == {"SIDE_TO_SIDE", "DOWNWARD", "STATIONARY"}

Abs(a) == IF a < 0 THEN -a ELSE a

\* The configurations an Enemy is created with.
EnemyMovementConfigs ==
    {cfg \in [speed : 0..MaxSpeed, pattern : EnemyMovementPattern,
              boundaryLeft : 0..MaxBound, boundaryRight : 0..MaxBound,
              boundaryBottom : {MaxBound}] :
        cfg.boundaryLeft <= cfg.boundaryRight}

\* The positions an Enemy is created at or moved to by setPosition.
EnemyPositions == [x : (-1)..(MaxBound + 1), y : 0..MaxBound]

\* initializeMovement(): the velocity the constructor leaves (direction is 1).
initializeMovement(cfg) ==
    IF cfg.pattern = "SIDE_TO_SIDE" THEN [x |-> cfg.speed * 1, y |-> 0]
    ELSE IF cfg.pattern = "DOWNWARD" THEN [x |-> 0, y |-> cfg.speed]
    ELSE [x |-> 0, y |-> 0]

\* Mutant of updateSideToSideMovement: the right boundary reverses the
\* velocity without putting the enemy back on it.
updateSideToSideMovementNoClamp(cfg, e, timeStep) ==
    LET x == e.position.x + e.velocity.x * timeStep
    IN  IF x <= cfg.boundaryLeft
        THEN [e EXCEPT !.position.x = cfg.boundaryLeft, !.direction = 1,
                       !.velocity.x = Abs(e.velocity.x)]
        ELSE IF x >= cfg.boundaryRight
             THEN [e EXCEPT !.position.x = x, !.direction = -1,
                            !.velocity.x = -Abs(e.velocity.x)]
             ELSE [e EXCEPT !.position.x = x]

\* updateSideToSideMovement(timeStep)
updateSideToSideMovement(cfg, e, timeStep) ==
    LET x == e.position.x + e.velocity.x * timeStep
    IN  IF x <= cfg.boundaryLeft
        THEN [e EXCEPT !.position.x = cfg.boundaryLeft, !.direction = 1,
                       !.velocity.x = Abs(e.velocity.x)]
        ELSE IF x >= cfg.boundaryRight
             THEN [e EXCEPT !.position.x = cfg.boundaryRight, !.direction = -1,
                            !.velocity.x = -Abs(e.velocity.x)]
             ELSE [e EXCEPT !.position.x = x]

\* updateDownwardMovement(timeStep)
updateDownwardMovement(cfg, e, timeStep) ==
    LET y == e.position.y + e.velocity.y * timeStep
    IN  [e EXCEPT !.position.y = IF y >= cfg.boundaryBottom THEN 0 ELSE y]

NoEnemyCall == [op |-> "none", thrown |-> FALSE, moved |-> 0, velocityBefore |-> 0]

\* new Enemy(startPosition, config)
EnemyInit ==
    /\ movementConfig \in EnemyMovementConfigs
    /\ \E startPosition \in EnemyPositions :
           enemy = [position |-> startPosition,
                    velocity |-> initializeMovement(movementConfig), direction |-> 1]
    /\ enemyCall = NoEnemyCall

\* update(deltaTime): a deltaTime that is 0 or negative throws; the pattern
\* of movementConfig selects the movement.
EnemyUpdate(deltaTime) ==
    /\ enemy' = IF deltaTime <= 0 THEN enemy
                ELSE IF movementConfig.pattern = "SIDE_TO_SIDE"
                     THEN updateSideToSideMovement(movementConfig, enemy, deltaTime)
                ELSE IF movementConfig.pattern = "DOWNWARD"
                     THEN updateDownwardMovement(movementConfig, enemy, deltaTime)
                ELSE enemy
    /\ enemyCall' = [op |-> "update", thrown |-> deltaTime <= 0,
                     moved |-> enemy.position.x + enemy.velocity.x * deltaTime,
                     velocityBefore |-> enemy.velocity.x]
    /\ UNCHANGED movementConfig

\* setPosition(position)
EnemySetPosition(position) ==
    /\ enemy' = [enemy EXCEPT !.position = position]
    /\ enemyCall' = [NoEnemyCall EXCEPT !.op = "setPosition"]
    /\ UNCHANGED movementConfig

\* ---------------------------------------------------- EnemyMovementSystem

MovementPattern == {"SIDE_TO_SIDE", "DOWNWARD", "ZIGZAG", "STATIONARY"}

\* DEFAULT_CONFIG of the movement module; frequency is kept in hundredths,
\* and bounds, which only isWithinBounds reads, are left out.
MOVEMENT_DEFAULT_CONFIG ==
    [pattern |-> "SIDE_TO_SIDE", speed |-> 2, amplitude |-> 100, frequency |-> 2]

\* The Partial<MovementConfig> values handed to the constructor and to
\* updateConfig: any of pattern, speed and amplitude, or nothing.
PartialMovementConfigs ==
    {<<>>} \cup
    {[pattern |-> p] : p \in MovementPattern} \cup
    {[speed |-> s] : s \in 0..MaxSpeed} \cup
    {[amplitude |-> a] : a \in {0, 100}} \cup
    {[pattern |-> p, speed |-> s] : p \in MovementPattern, s \in 0..MaxSpeed} \cup
    {[pattern |-> p, amplitude |-> a] : p \in MovementPattern, a \in {0, 100}}

\* validateConfig() of the movement system: TRUE when it returns, FALSE when
\* it throws.
MovementValidateConfig(cfg) ==
    /\ ~(cfg.speed <= 0)
    /\ ~(cfg.pattern = "SIDE_TO_SIDE" /\ (cfg.amplitude = 0 \/ cfg.frequency = 0))

\* The number Math.sin(time * frequency) * amplitude, kept as its operands.
SinTimes(time, frequency, amplitude) ==
    [time |-> time, frequency |-> frequency, amplitude |-> amplitude]

calculateSideToSidePosition(cfg, time, currentPosition) ==
    [x |-> currentPosition.x, xOffset |-> SinTimes(time, cfg.frequency, cfg.amplitude),
     y |-> currentPosition.y]

calculateDownwardPosition(cfg, time, currentPosition) ==
    [x |-> currentPosition.x, xOffset |-> SinTimes(0, 0, 0),
     y |-> currentPosition.y + cfg.speed]

calculateZigZagPosition(cfg, time, currentPosition) ==
    [x |-> currentPosition.x, xOffset |-> SinTimes(time, cfg.frequency, cfg.amplitude),
     y |-> currentPosition.y + cfg.speed]

NoMovementCall ==
    [op |-> "none", thrown |-> FALSE, dispatched |-> "none",
     result |-> [x |-> 0, xOffset |-> SinTimes(0, 0, 0), y |-> 0]]

\* new EnemyMovementSystem(config), for the configurations the constructor
\* does not throw on.
MovementInit ==
    /\ \E cfg \in PartialMovementConfigs :
           /\ MovementValidateConfig(cfg @@ MOVEMENT_DEFAULT_CONFIG)
           /\ movement = [config |-> cfg @@ MOVEMENT_DEFAULT_CONFIG, time |-> 0]
    /\ createdPattern = movement.config.pattern
    /\ movementCall = NoMovementCall

\* updatePosition(currentPosition, deltaTime)
UpdatePosition(currentPosition, deltaTime) ==
    LET time == movement.time + deltaTime
        cfg == movement.config
    IN  /\ time <= MaxMovementTime
        /\ movement' = [movement EXCEPT !.time = time]
        /\ movementCall' =
               [op |-> "updatePosition", thrown |-> FALSE, dispatched |-> cfg.pattern,
                result |->
                    IF cfg.pattern = "SIDE_TO_SIDE"
                    THEN calculateSideToSidePosition(cfg, time, currentPosition)
                    ELSE IF cfg.pattern = "DOWNWARD"
                         THEN calculateDownwardPosition(cfg, time, currentPosition)
                    ELSE IF cfg.pattern = "ZIGZAG"
                         THEN calculateZigZagPosition(cfg, time, currentPosition)
                    ELSE [x |-> currentPosition.x, xOffset |-> SinTimes(0, 0, 0),
                          y |-> currentPosition.y]]
        /\ UNCHANGED createdPattern

\* updateConfig(newConfig): the merged configuration is stored before it is
\* validated, so it stays in place when validateConfig throws.
UpdateConfig(newConfig) ==
    /\ movement' = [movement EXCEPT !.config = newConfig @@ movement.config]
    /\ movementCall' = [NoMovementCall EXCEPT !.op = "updateConfig",
                           !.thrown = ~MovementValidateConfig(newConfig @@ movement.config)]
    /\ UNCHANGED createdPattern

\* reset()
MovementReset ==
    /\ movement' = [movement EXCEPT !.time = 0]
    /\ movementCall' = [NoMovementCall EXCEPT !.op = "reset"]
    /\ UNCHANGED createdPattern

\* -------------------------------------------------------------- PlayerShip

\* MOVEMENT_CONFIG: MAX_SPEED 10, ACCELERATION 0.5 (0.02 for each 0.04 of
\* thrust), DECELERATION 0.2 (in tenths); ROTATION_SPEED is not modelled.
MOVEMENT_CONFIG ==
    [MAX_SPEED |-> 625000, ACCELERATION |-> 1250, DECELERATION |-> 2, ROTATION_SPEED |-> 1]

\* The magnitude below which applyDeceleration stops a component (0.01).
STOP_THRESHOLD == 625

\* Thrust 1 in units of 0.04.
FULL_THRUST == 25

\* a * b / c truncated toward zero.
MulDiv(a, b, c) == IF a < 0 THEN -(((-a) * b) \div c) ELSE (a * b) \div c

\* Math.PI * 2, to four decimals.
TWO_PI == 62832

\* A quarter turn, Math.PI / 2: as a rotation, and as the direction (15.708)
\* that makes rotate turn the ship by it.
QUARTER_TURN == 15708

\* The directions -1 and 1.
LEFT == -1000

RIGHT == 1000

\* a % m of the language: the remainder has the sign of the dividend.
Rem(a, m) == IF a < 0 THEN -((-a) % m) ELSE a % m

\* Math.cos and Math.sin of a rotation that is a whole number of quarter
\* turns, of either sign.
Cos(r) ==
    LET q == (r \div QUARTER_TURN) % 4
    IN  IF q = 0 THEN 1 ELSE IF q = 2 THEN -1 ELSE 0

Sin(r) ==
    LET q == (r \div QUARTER_TURN) % 4
    IN  IF q = 1 THEN 1 ELSE IF q = 3 THEN -1 ELSE 0

\* A natural number in base 1000, least significant digit first; 0 is the
\* empty sequence.  The squares of the velocities lie beyond TLC's integers,
\* which end at 2^31 - 1, so the clamps compare products digit by digit.
RECURSIVE Digits(_)
Digits(n) == IF n = 0 THEN <<>> ELSE <<n % 1000>> \o Digits(n \div 1000)

\* digits * n + carry in base 1000, for n > 0.
RECURSIVE TimesDigits(_, _, _)
TimesDigits(digits, n, carry) ==
    IF digits = <<>> THEN Digits(carry)
    ELSE <<(digits[1] * n + carry) % 1000>>
         \o TimesDigits(Tail(digits), n, (digits[1] * n + carry) \div 1000)

\* a * b * c * d in base 1000, for natural numbers.
Product(a, b, c, d) ==
    IF a = 0 \/ b = 0 \/ c = 0 \/ d = 0 THEN <<>>
    ELSE TimesDigits(TimesDigits(TimesDigits(Digits(a), b, 0), c, 0), d, 0)

\* p <= q for two numbers in base 1000.
RECURSIVE LeqDigits(_, _)
LeqDigits(p, q) ==
    IF Len(p) # Len(q) THEN Len(p) < Len(q)
    ELSE IF p = <<>> THEN TRUE
    ELSE IF p[Len(p)] # q[Len(q)] THEN p[Len(p)] < q[Len(q)]
    ELSE LeqDigits(SubSeq(p, 1, Len(p) - 1), SubSeq(q, 1, Len(q) - 1))

\* Math.sqrt(x * x + y * y) > max, for max >= 0: x * x + y * y > max * max,
\* tested as y * y > (max - |x|) * (max + |x|).
SpeedAbove(x, y, max) ==
    \/ Abs(x) > max
    \/ Abs(y) > max
    \/ ~LeqDigits(Product(Abs(y), Abs(y), 1, 1), Product(max - Abs(x), max + Abs(x), 1, 1))

\* The largest k in lo..hi with k * k * (x * x + y * y) <= x * x * max * max,
\* tested as k * k * y * y <= x * x * (max - k) * (max + k), by bisection; x
\* and y are magnitudes and hi <= max.
RECURSIVE ScaledBetween(_, _, _, _, _)
ScaledBetween(x, y, max, lo, hi) ==
    IF lo = hi THEN lo
    ELSE IF LeqDigits(Product((lo + hi + 1) \div 2, (lo + hi + 1) \div 2, y, y),
                      Product(x, x, max - (lo + hi + 1) \div 2, max + (lo + hi + 1) \div 2))
         THEN ScaledBetween(x, y, max, (lo + hi + 1) \div 2, hi)
         ELSE ScaledBetween(x, y, max, lo, (lo + hi + 1) \div 2 - 1)

\* x * (max / Math.sqrt(x * x + y * y)) for a speed above max, to the whole
\* unit toward zero.
ScaledTo(x, y, max) ==
    IF x < 0 THEN -ScaledBetween(-x, Abs(y), max, 0, Min(-x, max))
    ELSE ScaledBetween(x, Abs(y), max, 0, Min(x, max))

\* clampVelocity()
clampVelocity(v) ==
    IF SpeedAbove(v.dx, v.dy, MOVEMENT_CONFIG.MAX_SPEED)
    THEN [dx |-> ScaledTo(v.dx, v.dy, MOVEMENT_CONFIG.MAX_SPEED),
          dy |-> ScaledTo(v.dy, v.dx, MOVEMENT_CONFIG.MAX_SPEED)]
    ELSE v

\* One component after applyDeceleration: times (1 - DECELERATION), then 0
\* when its magnitude is below the threshold.
decelerate(c) ==
    LET d == MulDiv(c, 10 - MOVEMENT_CONFIG.DECELERATION, 10)
    IN  IF Abs(d) < STOP_THRESHOLD THEN 0 ELSE d

\* applyDeceleration()
applyDeceleration(s) ==
    [s EXCEPT !.velocity = IF ~s.isMoving
                           THEN [dx |-> decelerate(s.velocity.dx),
                                 dy |-> decelerate(s.velocity.dy)]
                           ELSE s.velocity,
              !.isMoving = FALSE]

\* updatePosition(deltaTime)
shipUpdatePosition(s, deltaTime) ==
    [s EXCEPT !.position = [x |-> s.position.x + s.velocity.dx * deltaTime,
                            y |-> s.position.y + s.velocity.dy * deltaTime]]

\* enforceBoundaries() without its lower limits.
enforceBoundariesUpperOnly(s) ==
    [s EXCEPT !.position = [x |-> Min(s.bounds.maxX, s.position.x),
                            y |-> Min(s.bounds.maxY, s.position.y)]]

\* enforceBoundaries()
enforceBoundaries(s) ==
    [s EXCEPT !.position = [x |-> Max(s.bounds.minX, Min(s.bounds.maxX, s.position.x)),
                            y |-> Max(s.bounds.minY, Min(s.bounds.maxY, s.position.y))]]

NoShipCall ==
    [op |-> "none", thrown |-> FALSE, thrustSince |-> "none", clamped |-> FALSE]

\* new PlayerShip(startX, startY, bounds)
ShipInit ==
    /\ \E startX \in 0..MaxShipBound, startY \in 0..MaxShipBound :
           ship = [position |-> [x |-> startX, y |-> startY],
                   velocity |-> [dx |-> 0, dy |-> 0], rotation |-> 0,
                   bounds |-> [minX |-> 0, maxX |-> MaxShipBound,
                               minY |-> 0, maxY |-> MaxShipBound],
                   isMoving |-> FALSE]
    /\ shipCall = NoShipCall

\* update(deltaTime); shipCall.clamped tells that enforceBoundaries moved the
\* ship.
ShipUpdate(deltaTime) ==
    /\ ship' = enforceBoundaries(applyDeceleration(shipUpdatePosition(ship, deltaTime)))
    /\ shipCall' = [op |-> "update", thrown |-> FALSE, thrustSince |-> "none",
                    clamped |-> shipUpdatePosition(ship, deltaTime).position # ship'.position]

\* applyThrust(thrust): a thrust outside [0, 1] throws before anything is
\* changed; a thrust of 0 still sets isMoving.  A full thrust is explored at
\* every velocity, a smaller one while |dx|, |dy| <= MaxVelocity.
ApplyThrust(thrust) ==
    LET thrustForce == MOVEMENT_CONFIG.ACCELERATION * thrust
        v == clampVelocity([dx |-> ship.velocity.dx + Cos(ship.rotation) * thrustForce,
                            dy |-> ship.velocity.dy + Sin(ship.rotation) * thrustForce])
    IN  IF thrust < 0 \/ thrust > FULL_THRUST
        THEN /\ shipCall' = [shipCall EXCEPT !.op = "applyThrust", !.thrown = TRUE]
             /\ UNCHANGED ship
        ELSE /\ \/ thrust = FULL_THRUST
                \/ Abs(v.dx) <= MaxVelocity /\ Abs(v.dy) <= MaxVelocity
             /\ ship.rotation % QUARTER_TURN = 0
             /\ ship' = [ship EXCEPT !.isMoving = TRUE, !.velocity = v]
             /\ shipCall' = [shipCall EXCEPT
                                !.op = "applyThrust", !.thrown = FALSE,
                                !.thrustSince = IF thrust > 0 \/ shipCall.thrustSince = "positive"
                                                THEN "positive" ELSE "zero"]

\* rotate(direction)
Rotate(direction) ==
    /\ ship' = [ship EXCEPT
                  !.rotation = Rem(ship.rotation + MOVEMENT_CONFIG.ROTATION_SPEED * direction,
                                   TWO_PI)]
    /\ shipCall' = [shipCall EXCEPT !.op = "rotate", !.thrown = FALSE]

\* The bounds updateBounds is given: the same interval on both axes, up to
\* the constructor's maximum.
ShipBounds ==
    {[minX |-> a, maxX |-> MaxShipBound, minY |-> a, maxY |-> MaxShipBound] : a \in 0..MaxShipBound}

\* updateBounds(newBounds)
UpdateBounds(newBounds) ==
    /\ ship' = [ship EXCEPT !.bounds = newBounds]
    /\ shipCall' = [shipCall EXCEPT !.op = "updateBounds", !.thrown = FALSE]


\* ------------------------------------------------------ MovementController
\* Velocities and positions are whole numbers of 1/1024, rotations of 0.0001
\* rad, the deceleration factor is in hundredths.  The constructor's
\* defaults: maxSpeed 10, acceleration 0.5, deceleration 0.98, rotationSpeed
\* 0.1.
CONTROLLER_DEFAULT_CONFIG ==
    [maxSpeed |-> 10240, acceleration |-> 512, deceleration |-> 98, rotationSpeed |-> 1000]

\* The partial configurations the controller is built with: a maxSpeed of
\* 48/1024 (0.046875), an acceleration of 24/1024 (0.0234375), a
\* rotationSpeed of a quarter turn, and a deceleration factor of 0.5, 1 or
\* 1.5.  These numbers and their sums and products are binary fractions, which
\* the code's floating point holds without rounding.
PartialControllerConfigs ==
    {[maxSpeed |-> 48, acceleration |-> 24, deceleration |-> d,
      rotationSpeed |-> QUARTER_TURN] : d \in {50, 100, 150}}

\* The magnitude below which applyFriction stops a component, 0.01, in
\* hundredths of 1/1024: a velocity v times a factor of d hundredths is below
\* 0.01 when |v| * d < 1024.
FRICTION_THRESHOLD == 1024

\* The values of a component of the input vector.
InputAxis == {-1, 0, 1}

\* updateRotation(input, deltaTime)
updateRotation(c, input, deltaTime) ==
    IF input.x # 0
    THEN [c EXCEPT !.rotation = Rem(c.rotation + input.x * c.config.rotationSpeed * deltaTime,
                                    TWO_PI)]
    ELSE c

\* clampVelocity(): each component times maxSpeed / currentSpeed, to the
\* whole unit toward zero.
controllerClampVelocity(c) ==
    IF SpeedAbove(c.velocity.x, c.velocity.y, c.config.maxSpeed)
    THEN [c EXCEPT !.velocity = [x |-> ScaledTo(c.velocity.x, c.velocity.y, c.config.maxSpeed),
                                 y |-> ScaledTo(c.velocity.y, c.velocity.x, c.config.maxSpeed)]]
    ELSE c

\* The acceleration updateVelocity adds along the heading.
accelerate(c, input, deltaTime) ==
    [c EXCEPT !.velocity =
        [x |-> c.velocity.x + Cos(c.rotation) * input.y * c.config.acceleration * deltaTime,
         y |-> c.velocity.y + Sin(c.rotation) * input.y * c.config.acceleration * deltaTime]]

\* updateVelocity(input, deltaTime)
updateVelocity(c, input, deltaTime) ==
    IF input.y # 0 THEN controllerClampVelocity(accelerate(c, input, deltaTime)) ELSE c

\* updatePosition(deltaTime)
controllerUpdatePosition(c, deltaTime) ==
    [c EXCEPT !.position = [x |-> c.position.x + c.velocity.x * deltaTime,
                            y |-> c.position.y + c.velocity.y * deltaTime]]

\* One component after applyFriction: times config.deceleration, then 0 when
\* its magnitude is below the threshold.
friction(v, deceleration) ==
    IF Abs(v * deceleration) < FRICTION_THRESHOLD THEN 0 ELSE MulDiv(v, deceleration, 100)

\* applyFriction()
applyFriction(c) ==
    [c EXCEPT !.velocity = [x |-> friction(c.velocity.x, c.config.deceleration),
                            y |-> friction(c.velocity.y, c.config.deceleration)]]

\* applyFriction leaves a whole number of units: the product is one, or it is
\* below the threshold and the component is stopped.
WholeFriction(v, deceleration) ==
    Abs(v * deceleration) < FRICTION_THRESHOLD \/ (v * deceleration) % 100 = 0

NoControllerCall == [op |-> "none", accelerated |-> FALSE, clamped |-> FALSE]

\* new MovementController({x: 0, y: 0}, config)
ControllerInit ==
    /\ \E partial \in PartialControllerConfigs :
           controller = [position |-> [x |-> 0, y |-> 0], velocity |-> [x |-> 0, y |-> 0],
                         rotation |-> 0, config |-> partial @@ CONTROLLER_DEFAULT_CONFIG]
    /\ controllerCall = NoControllerCall

\* update(input, deltaTime): no step of it throws for numbers, so the catch
\* branch is not taken.  The call is explored where the whole units hold what
\* the code computes: the rotation stays within one turn of 0, the velocity
\* is accelerated at heading 0 (Math.cos 1, Math.sin 0) and so lies along the
\* x axis, where clampVelocity leaves maxSpeed itself, and applyFriction
\* leaves a whole number of units.
ControllerUpdate(input, deltaTime) ==
    LET turned == updateRotation(controller, input, deltaTime)
        sped == updateVelocity(turned, input, deltaTime)
        after == applyFriction(controllerUpdatePosition(sped, deltaTime))
    IN  /\ Abs(controller.rotation + input.x * controller.config.rotationSpeed * deltaTime)
               < TWO_PI
        /\ input.y # 0 => turned.rotation = 0
        /\ sped.velocity.y = 0
        /\ WholeFriction(sped.velocity.x, sped.config.deceleration)
        /\ Abs(after.velocity.x) <= MaxControllerVelocity
        /\ Abs(after.velocity.y) <= MaxControllerVelocity
        /\ Abs(after.position.x) <= MaxControllerPosition
        /\ Abs(after.position.y) <= MaxControllerPosition
        /\ controller' = after
        /\ controllerCall' = [op |-> "update", accelerated |-> input.y # 0 /\ deltaTime # 0,
                              clamped |-> input.y # 0 /\ sped # accelerate(turned, input, deltaTime)]

\* reset(position), with or without a position.
ControllerReset(position) ==
    /\ controller' = [controller EXCEPT
                        !.position = IF position.given THEN [x |-> position.x, y |-> position.y]
                                     ELSE controller.position,
                        !.velocity = [x |-> 0, y |-> 0], !.rotation = 0]
    /\ controllerCall' = [op |-> "reset", accelerated |-> FALSE, clamped |-> FALSE]


\* ------------------------------------------ score managers and listeners
\* A localStorage item: absent, or a text that is not JSON and does not start
\* with a digit ("garbage"), the text of a number, the text of an object that
\* is not an array, or the text of an array of score entries; "unavailable"
\* is a localStorage whose getItem and setItem throw.
Missing == [kind |-> "missing"]

Unavailable == [kind |-> "unavailable"]

Garbage == [kind |-> "garbage"]

ObjectText == [kind |-> "object"]

NumberText(n) == [kind |-> "number", value |-> n]

ListText(entries) == [kind |-> "list", entries |-> entries]

\* Values of a numeric field: a number, NaN, or an object that is not a number.
Num(n) == [kind |-> "number", value |-> n]

NaN == [kind |-> "NaN"]

Obj == [kind |-> "object"]

\* a > b of the language on such values: false unless both are numbers.
Greater(a, b) == a.kind = "number" /\ b.kind = "number" /\ a.value > b.value

Scores == 0..MaxScore

\* A score entry; the timestamp is left out.
ScoreEntries == [playerName : {"A"}, score : Scores]

RECURSIVE SeqsUpTo(_, _)
SeqsUpTo(S, n) ==
    IF n = 0 THEN {<<>>}
    ELSE SeqsUpTo(S, n - 1) \cup {Append(q, e) : q \in {r \in SeqsUpTo(S, n - 1) : Len(r) = n - 1}, e \in S}

\* localStorage.setItem(key, text): it throws when the storage is unavailable,
\* and the callers catch that.
setItem(stored, text) == IF stored.kind = "unavailable" THEN stored ELSE text

\* The place of an entry in a list sorted by (a, b) => b.score - a.score,
\* behind the entries that do not compare lower (the sort is stable).
RECURSIVE InsertByScore(_, _)
InsertByScore(sorted, entry) ==
    IF sorted = <<>> THEN <<entry>>
    ELSE IF Head(sorted).score >= entry.score
         THEN <<Head(sorted)>> \o InsertByScore(Tail(sorted), entry)
         ELSE <<entry>> \o sorted

\* sortHighScores()
RECURSIVE sortHighScores(_)
sortHighScores(list) ==
    IF list = <<>> THEN <<>>
    ELSE InsertByScore(sortHighScores(SubSeq(list, 1, Len(list) - 1)), list[Len(list)])

\* getLowestHighScore()
getLowestHighScore(list) == IF Len(list) > 0 THEN list[Len(list)].score ELSE 0

\* addHighScore(entry): the list it leaves and the value it returns.
addHighScore(m, entry) ==
    IF Len(m.highScores) < m.maxHighScores
    THEN [list |-> sortHighScores(Append(m.highScores, entry)), added |-> TRUE]
    ELSE IF entry.score > getLowestHighScore(m.highScores)
         THEN [list |-> sortHighScores(
                            Append(SubSeq(m.highScores, 1, Len(m.highScores) - 1), entry)),
               added |-> TRUE]
         ELSE [list |-> m.highScores, added |-> FALSE]

\* JSON.parse(text): "throws" stands for its SyntaxError.
JSONparse(text) ==
    IF text.kind = "garbage" THEN [kind |-> "throws"]
    ELSE IF text.kind = "number" THEN Num(text.value)
    ELSE IF text.kind = "list" THEN [kind |-> "array", entries |-> text.entries]
    ELSE Obj

\* loadHighScores(): the list the constructor starts from.  getItem throws
\* when the storage is unavailable and returns null when the item is missing.
loadHighScores(stored) ==
    IF stored.kind = "unavailable" THEN <<>>
    ELSE IF stored.kind = "missing" THEN <<>>
    ELSE IF JSONparse(stored).kind = "throws" THEN <<>>
    ELSE sortHighScores(IF JSONparse(stored).kind = "array" THEN JSONparse(stored).entries
                        ELSE <<>>)

\* saveHighScores()
saveHighScores(stored, list) == setItem(stored, ListText(list))

NoManagerCall ==
    [op |-> "none", thrown |-> FALSE, notified |-> FALSE, before |-> 0, arg |-> 0,
     invoked |-> <<>>, events |-> {}]

\* What the list-based ScoreManager may find in storage.
ListStorages ==
    {Missing, Unavailable, Garbage, ObjectText}
        \cup {NumberText(n) : n \in Scores}
        \cup {ListText(entries) : entries \in SeqsUpTo(ScoreEntries, MaxStored)}

\* new ScoreManager(config) of src/systems/ScoreManager.ts
ScoreListInit ==
    /\ managerImpl = "ScoreManager.ts"
    /\ found \in ListStorages
    /\ storage = found
    /\ \E maxHighScores \in 0..MaxHighScores :
           manager = [currentScore |-> 0, highScores |-> loadHighScores(found),
                      maxHighScores |-> maxHighScores]
    /\ listeners = <<>>
    /\ managerCall = NoManagerCall

\* addPoints(points) of the list-based ScoreManager
ListAddPoints(points) ==
    /\ managerImpl = "ScoreManager.ts"
    /\ IF points < 0
       THEN /\ managerCall' = [NoManagerCall EXCEPT !.op = "addPoints", !.thrown = TRUE]
            /\ UNCHANGED manager
       ELSE /\ manager.currentScore + points <= MaxScore
            /\ manager' = [manager EXCEPT !.currentScore = @ + points]
            /\ managerCall' = [NoManagerCall EXCEPT !.op = "addPoints",
                                                    !.before = manager.currentScore,
                                                    !.arg = points]
    /\ UNCHANGED <<managerImpl, found, storage, listeners>>

\* resetScore() of the list-based ScoreManager
ListResetScore ==
    /\ managerImpl = "ScoreManager.ts"
    /\ manager' = [manager EXCEPT !.currentScore = 0]
    /\ managerCall' = [NoManagerCall EXCEPT !.op = "resetScore", !.before = manager.currentScore]
    /\ UNCHANGED <<managerImpl, found, storage, listeners>>

\* submitHighScore(playerName): a name that is empty after trim() throws.
SubmitHighScore(playerName) ==
    LET result == addHighScore(manager, [playerName |-> playerName, score |-> manager.currentScore])
    IN  /\ managerImpl = "ScoreManager.ts"
        /\ IF playerName = ""
           THEN /\ managerCall' = [NoManagerCall EXCEPT !.op = "submitHighScore", !.thrown = TRUE]
                /\ UNCHANGED <<manager, storage>>
           ELSE /\ manager' = [manager EXCEPT !.highScores = result.list]
                /\ storage' = IF result.added THEN saveHighScores(storage, result.list)
                              ELSE storage
                /\ managerCall' = [NoManagerCall EXCEPT !.op = "submitHighScore",
                                                        !.before = manager.currentScore]
        /\ UNCHANGED <<managerImpl, found, listeners>>

\* clearHighScores()
ClearHighScores ==
    /\ managerImpl = "ScoreManager.ts"
    /\ manager' = [manager EXCEPT !.highScores = <<>>]
    /\ storage' = saveHighScores(storage, <<>>)
    /\ managerCall' = [NoManagerCall EXCEPT !.op = "clearHighScores"]
    /\ UNCHANGED <<managerImpl, found, listeners>>


\* The listeners of a manager are records [event, behaviour]: the event the
\* listener is registered for ("any" where the class has one kind of event)
\* and the callback, of which there are two: one that returns and one that
\* throws.  Two equal records are two registrations of the same callback.
ListenerBehaviours == {"returns", "throws"}

SCORE_EVENTS == {"scoreUpdated", "highScoreReached", "scoreReset"}

\* The forEach of notifyListeners, emitEvent and notifyObservers without the
\* try/catch around the callback: the first callback that throws ends it.
RECURSIVE notifyListenersNoCatch(_, _, _, _)
notifyListenersNoCatch(ls, event, i, invoked) ==
    IF i > Len(ls) THEN [invoked |-> invoked, thrown |-> FALSE]
    ELSE IF ls[i].event # event THEN notifyListenersNoCatch(ls, event, i + 1, invoked)
    ELSE IF ls[i].behaviour = "throws"
         THEN [invoked |-> [invoked EXCEPT ![i] = @ + 1], thrown |-> TRUE]
         ELSE notifyListenersNoCatch(ls, event, i + 1, [invoked EXCEPT ![i] = @ + 1])

\* The forEach of notifyListeners (part_000, part_001), emitEvent (part_006)
\* and notifyObservers (part_008), from the i-th listener on: each listener
\* of the event is called inside its own try/catch.  The result is the number
\* of calls of each listener and whether an exception left the loop.
RECURSIVE notifyListeners(_, _, _, _)
notifyListeners(ls, event, i, invoked) ==
    IF i > Len(ls) THEN [invoked |-> invoked, thrown |-> FALSE]
    ELSE IF ls[i].event # event THEN notifyListeners(ls, event, i + 1, invoked)
    ELSE notifyListeners(ls, event, i + 1, [invoked EXCEPT ![i] = @ + 1])

\* No listener has been called.
NoneInvoked(ls) == [i \in 1..Len(ls) |-> 0]

\* The record of a call that notified the listeners of the given events:
\* arg is the score, key or touch the call was given and before the score
\* before it.
Notified(op, told, events, before, arg) ==
    [op |-> op, thrown |-> told.thrown, notified |-> TRUE, before |-> before, arg |-> arg,
     invoked |-> told.invoked, events |-> events]

\* addListener (part_000) and addObserver (part_008) push the callback onto
\* an array; subscribe (part_006) and addInputListener (part_001) add it to a
\* Set, which holds a callback once and keeps the order of insertion.
AddListener(event, behaviour) ==
    /\ managerImpl # "ScoreManager.ts"
    /\ event \in (IF managerImpl = "part_006" THEN SCORE_EVENTS ELSE {"any"})
    /\ IF /\ managerImpl \in {"part_006", "InputManager"}
          /\ \E i \in 1..Len(listeners) :
                 listeners[i] = [event |-> event, behaviour |-> behaviour]
       THEN UNCHANGED listeners
       ELSE /\ Len(listeners) < MaxListeners
            /\ listeners' = Append(listeners, [event |-> event, behaviour |-> behaviour])
    /\ managerCall' = [NoManagerCall EXCEPT !.op = "addListener"]
    /\ UNCHANGED <<managerImpl, found, storage, manager>>

\* removeListener (part_000) filters every registration of the callback out
\* of the array; unsubscribe (part_006) and removeInputListener (part_001)
\* delete it from the Set.  A callback that is not registered changes nothing.
RemoveListener(event, behaviour) ==
    /\ managerImpl \in {"part_000", "part_006", "InputManager"}
    /\ event \in (IF managerImpl = "part_006" THEN SCORE_EVENTS ELSE {"any"})
    /\ listeners' = SelectSeq(listeners,
                              LAMBDA l : l # [event |-> event, behaviour |-> behaviour])
    /\ managerCall' = [NoManagerCall EXCEPT !.op = "removeListener"]
    /\ UNCHANGED <<managerImpl, found, storage, manager>>

\* What a numeric score manager may find in storage.
NumberStorages ==
    {Missing, Unavailable, Garbage, ObjectText} \cup {NumberText(n) : n \in Scores}

\* parseInt(text, 10)
parseInt(text) == IF text.kind = "number" THEN Num(text.value) ELSE NaN

\* loadHighScore() of part_000
loadHighScore(stored) ==
    IF stored.kind = "unavailable" THEN Num(0)
    ELSE IF stored.kind = "missing" THEN Num(0)
    ELSE parseInt(stored)

\* ScoreManager.getInstance() of part_000: the module builds the instance with
\* DEFAULT_SCORE_CONFIG (initialScore 0, multiplier 1) when it is loaded.
SingletonInit ==
    /\ managerImpl = "part_000"
    /\ found \in NumberStorages
    /\ storage = found
    /\ manager = [currentScore |-> 0, highScore |-> loadHighScore(found), multiplier |-> 1]
    /\ listeners = <<>>
    /\ managerCall = NoManagerCall

\* updateHighScore() of part_000: the high score and the storage it leaves.
updateHighScore(m, stored) ==
    IF Greater(Num(m.currentScore), m.highScore)
    THEN [manager |-> [m EXCEPT !.highScore = Num(m.currentScore)],
          storage |-> setItem(stored, NumberText(m.currentScore))]
    ELSE [manager |-> m, storage |-> stored]

\* addPoints(points) of part_000
SingletonAddPoints(points) ==
    LET scored == [manager EXCEPT !.currentScore = @ + points * manager.multiplier]
        told == notifyListeners(listeners, "any", 1, NoneInvoked(listeners))
        after == updateHighScore(scored, storage)
    IN  /\ managerImpl = "part_000"
        /\ IF points < 0
           THEN /\ managerCall' = [NoManagerCall EXCEPT !.op = "addPoints", !.thrown = TRUE]
                /\ UNCHANGED <<manager, storage>>
           ELSE /\ scored.currentScore <= MaxScore
                /\ manager' = IF told.thrown THEN scored ELSE after.manager
                /\ storage' = IF told.thrown THEN storage ELSE after.storage
                /\ managerCall' = Notified("addPoints", told, {"any"}, manager.currentScore,
                                            points * manager.multiplier)
        /\ UNCHANGED <<managerImpl, found, listeners>>

\* setMultiplier(multiplier) of part_000
SetMultiplier(multiplier) ==
    /\ managerImpl = "part_000"
    /\ IF multiplier <= 0
       THEN /\ managerCall' = [NoManagerCall EXCEPT !.op = "setMultiplier", !.thrown = TRUE]
            /\ UNCHANGED manager
       ELSE /\ manager' = [manager EXCEPT !.multiplier = multiplier]
            /\ managerCall' = [NoManagerCall EXCEPT !.op = "setMultiplier"]
    /\ UNCHANGED <<managerImpl, found, storage, listeners>>

\* resetScore() of part_000
SingletonResetScore ==
    LET told == notifyListeners(listeners, "any", 1, NoneInvoked(listeners))
    IN  /\ managerImpl = "part_000"
        /\ manager' = [manager EXCEPT !.currentScore = 0, !.multiplier = 1]
        /\ managerCall' = Notified("resetScore", told, {"any"}, manager.currentScore, 0)
        /\ UNCHANGED <<managerImpl, found, storage, listeners>>

\* loadHighScore() of part_006
eventsLoadHighScore(stored) ==
    IF stored.kind = "unavailable" THEN Num(0)
    ELSE IF stored.kind = "missing" THEN Num(0)
    ELSE IF JSONparse(stored).kind = "throws" THEN Num(0)
    ELSE JSONparse(stored)

\* new ScoreManager(options) of part_006, with initialize(): the score
\* starts at options.initialScore || DEFAULT_SCORE, and a high score that is
\* falsy is saved as DEFAULT_SCORE when scores are persisted.
EventsInit ==
    /\ managerImpl = "part_006"
    /\ found \in NumberStorages
    /\ \E persistScore \in BOOLEAN, initialScore \in Scores :
           /\ manager = [currentScore |-> initialScore,
                         highScore |-> eventsLoadHighScore(found),
                         persistScore |-> persistScore]
           /\ storage = IF persistScore /\ eventsLoadHighScore(found) = Num(0)
                         THEN setItem(found, NumberText(0))
                         ELSE found
    /\ listeners = <<>>
    /\ managerCall = NoManagerCall

\* addPoints(points) of part_006; isNumber tells that points is a number
\* other than NaN.  checkHighScore() emits highScoreReached before
\* scoreUpdated is emitted.
EventsAddPoints(points, isNumber) ==
    LET scored == manager.currentScore + points
        isHigh == Greater(Num(scored), manager.highScore)
        toldHigh == IF isHigh
                    THEN notifyListeners(listeners, "highScoreReached", 1, NoneInvoked(listeners))
                    ELSE [invoked |-> NoneInvoked(listeners), thrown |-> FALSE]
        told == IF toldHigh.thrown THEN toldHigh
                ELSE notifyListeners(listeners, "scoreUpdated", 1, toldHigh.invoked)
    IN  /\ managerImpl = "part_006"
        /\ IF ~isNumber
           THEN /\ managerCall' = [NoManagerCall EXCEPT !.op = "addPoints", !.thrown = TRUE]
                /\ UNCHANGED <<manager, storage>>
           ELSE /\ scored \in (-1)..MaxScore
                /\ manager' = [manager EXCEPT !.currentScore = scored,
                                              !.highScore = IF isHigh THEN Num(scored) ELSE @]
                /\ storage' = IF isHigh /\ manager.persistScore
                              THEN setItem(storage, NumberText(scored))
                              ELSE storage
                /\ managerCall' = Notified("addPoints", told,
                                            IF isHigh THEN {"highScoreReached", "scoreUpdated"}
                                            ELSE {"scoreUpdated"},
                                            manager.currentScore, points)
        /\ UNCHANGED <<managerImpl, found, listeners>>

\* subtractPoints(points) of part_006
SubtractPoints(points, isNumber) ==
    LET told == notifyListeners(listeners, "scoreUpdated", 1, NoneInvoked(listeners))
    IN  /\ managerImpl = "part_006"
        /\ IF ~isNumber
           THEN /\ managerCall' = [NoManagerCall EXCEPT !.op = "subtractPoints", !.thrown = TRUE]
                /\ UNCHANGED manager
           ELSE /\ Max(0, manager.currentScore - points) <= MaxScore
                /\ manager' = [manager EXCEPT !.currentScore = Max(0, manager.currentScore - points)]
                /\ managerCall' = Notified("subtractPoints", told, {"scoreUpdated"},
                                            manager.currentScore, points)
        /\ UNCHANGED <<managerImpl, found, storage, listeners>>

\* resetScore() of part_006
EventsResetScore ==
    LET told == notifyListeners(listeners, "scoreReset", 1, NoneInvoked(listeners))
    IN  /\ managerImpl = "part_006"
        /\ manager' = [manager EXCEPT !.currentScore = 0]
        /\ managerCall' = Notified("resetScore", told, {"scoreReset"}, manager.currentScore, 0)
        /\ UNCHANGED <<managerImpl, found, storage, listeners>>

\* new ScoreDisplay({maxScore: MaxScore})
DisplayInit ==
    /\ managerImpl = "ScoreDisplay"
    /\ found = Missing
    /\ storage = Missing
    /\ manager = [currentScore |-> 0, minScore |-> 0, maxScore |-> MaxScore]
    /\ listeners = <<>>
    /\ managerCall = NoManagerCall

\* isValidScore(score)
isValidScore(m, score) == score >= m.minScore /\ score <= m.maxScore

\* updateScore(newScore): no element is mounted, so updateDisplay() does
\* nothing.
UpdateScore(newScore) ==
    LET told == notifyListeners(listeners, "any", 1, NoneInvoked(listeners))
    IN  /\ managerImpl = "ScoreDisplay"
        /\ IF ~isValidScore(manager, newScore)
           THEN /\ managerCall' = [NoManagerCall EXCEPT !.op = "updateScore", !.arg = newScore]
                /\ UNCHANGED manager
           ELSE /\ manager' = [manager EXCEPT !.currentScore = newScore]
                /\ managerCall' = Notified("updateScore", told, {"any"},
                                            manager.currentScore, newScore)
        /\ UNCHANGED <<managerImpl, found, storage, listeners>>

\* increment(amount)
Increment(amount) == UpdateScore(manager.currentScore + amount)

\* decrement(amount)
Decrement(amount) == UpdateScore(manager.currentScore - amount)

\* destroy()
Destroy ==
    /\ managerImpl = "ScoreDisplay"
    /\ listeners' = <<>>
    /\ managerCall' = [NoManagerCall EXCEPT !.op = "destroy"]
    /\ UNCHANGED <<managerImpl, found, storage, manager>>

\* The keys and the touch identifiers of the events.
Keys == {"a"}

Touches == {0}

\* The module's one InputManager: new InputManager(), then Object.freeze,
\* which leaves the Maps and the Set it refers to mutable but makes an
\* assignment to a field of the object throw (module code is strict).
InputInit ==
    /\ managerImpl = "InputManager"
    /\ found = Missing
    /\ storage = Missing
    /\ manager = [keyStates |-> [k \in Keys |-> "none"],
                  touchStates |-> [t \in Touches |-> "none"], isEnabled |-> TRUE]
    /\ listeners = <<>>
    /\ managerCall = NoManagerCall

\* handleKeyDown(event) and handleKeyUp(event): type is "keydown" or "keyup".
HandleKey(type, key) ==
    LET told == notifyListeners(listeners, "any", 1, NoneInvoked(listeners))
    IN  /\ managerImpl = "InputManager"
        /\ IF ~manager.isEnabled
           THEN /\ managerCall' = [NoManagerCall EXCEPT !.op = type, !.arg = key]
                /\ UNCHANGED manager
           ELSE /\ manager' = [manager EXCEPT !.keyStates[key] = type]
                /\ managerCall' = Notified(type, told, {"any"}, 0, key)
        /\ UNCHANGED <<managerImpl, found, storage, listeners>>

\* handleTouchStart(event) and handleTouchEnd(event) for one changed touch:
\* type is "touchstart" or "touchend".
HandleTouch(type, touch) ==
    LET told == notifyListeners(listeners, "any", 1, NoneInvoked(listeners))
    IN  /\ managerImpl = "InputManager"
        /\ IF ~manager.isEnabled
           THEN /\ managerCall' = [NoManagerCall EXCEPT !.op = type, !.arg = touch]
                /\ UNCHANGED manager
           ELSE /\ manager' = [manager EXCEPT !.touchStates[touch] = type]
                /\ managerCall' = Notified(type, told, {"any"}, 0, touch)
        /\ UNCHANGED <<managerImpl, found, storage, listeners>>

\* enable() and disable(): the assignment to isEnabled throws a TypeError on
\* the frozen instance, which stays enabled.
SetEnabled(isEnabled) ==
    /\ managerImpl = "InputManager"
    /\ managerCall' = [NoManagerCall EXCEPT !.op = "enable", !.thrown = TRUE]
    /\ UNCHANGED <<managerImpl, found, storage, manager, listeners>>

\* cleanup()
Cleanup ==
    /\ managerImpl = "InputManager"
    /\ manager' = [manager EXCEPT !.keyStates = [k \in Keys |-> "none"],
                                  !.touchStates = [t \in Touches |-> "none"]]
    /\ listeners' = <<>>
    /\ managerCall' = [NoManagerCall EXCEPT !.op = "cleanup"]
    /\ UNCHANGED <<managerImpl, found, storage>>


\* ------------------------------------------------------------ StateManager
\* A state object is identified with the name it is registered under; "null"
\* is no state.
StateNames == {"menu", "play"}

NoSmCall == [op |-> "none", rejected |-> "none", before |-> "null", calls |-> {}, inFlight |-> 0]

\* new StateManager()
StateManagerInit ==
    /\ stateManager = [states |-> {}, currentStateName |-> "null", isTransitioning |-> FALSE]
    /\ transitions = <<>>
    /\ smCall = NoSmCall

\* registerState(stateName, state); valid tells that the state object has
\* the three functions.
RegisterState(stateName, valid) ==
    /\ IF ~valid
       THEN /\ smCall' = [NoSmCall EXCEPT !.op = "registerState", !.rejected = "invalid state"]
            /\ UNCHANGED stateManager
       ELSE IF stateName \in stateManager.states
       THEN /\ smCall' = [NoSmCall EXCEPT !.op = "registerState", !.rejected = "registered"]
            /\ UNCHANGED stateManager
       ELSE /\ stateManager' = [stateManager EXCEPT !.states = @ \cup {stateName}]
            /\ smCall' = [NoSmCall EXCEPT !.op = "registerState"]
    /\ UNCHANGED transitions

\* changeState(newStateName) up to its first await: exit() of the current
\* state is called when there is one, and otherwise the new state is made
\* current and its enter() is called.
ChangeState(newStateName) ==
    IF stateManager.isTransitioning
    THEN /\ smCall' = [NoSmCall EXCEPT !.op = "changeState", !.rejected = "in progress",
                                       !.before = stateManager.currentStateName,
                                       !.inFlight = Len(transitions)]
         /\ UNCHANGED <<stateManager, transitions>>
    ELSE IF newStateName \notin stateManager.states
    THEN /\ smCall' = [NoSmCall EXCEPT !.op = "changeState", !.rejected = "not found",
                                       !.before = stateManager.currentStateName,
                                       !.inFlight = Len(transitions)]
         /\ UNCHANGED <<stateManager, transitions>>
    ELSE /\ Len(transitions) < MaxTransitions
         /\ IF stateManager.currentStateName # "null"
            THEN /\ stateManager' = [stateManager EXCEPT !.isTransitioning = TRUE]
                 /\ transitions' = Append(transitions,
                                          [newState |-> newStateName, awaiting |-> "exit",
                                           before |-> stateManager.currentStateName])
                 /\ smCall' = [op |-> "changeState", rejected |-> "none",
                               before |-> stateManager.currentStateName,
                               calls |-> {[fn |-> "exit", state |-> stateManager.currentStateName]},
                               inFlight |-> Len(transitions)]
            ELSE /\ stateManager' = [stateManager EXCEPT !.isTransitioning = TRUE,
                                                         !.currentStateName = newStateName]
                 /\ transitions' = Append(transitions,
                                          [newState |-> newStateName, awaiting |-> "enter",
                                           before |-> stateManager.currentStateName])
                 /\ smCall' = [op |-> "changeState", rejected |-> "none",
                               before |-> stateManager.currentStateName,
                               calls |-> {[fn |-> "enter", state |-> newStateName]},
                               inFlight |-> Len(transitions)]

\* The sequence without its i-th element.
Without(seq, i) == SubSeq(seq, 1, i - 1) \o SubSeq(seq, i + 1, Len(seq))

\* The i-th awaiting changeState resumes after exit(): when exit() resolved
\* the new state is made current and its enter() is called; when it rejected
\* the call rejects, and finally clears _isTransitioning.
ExitSettles(i, resolved) ==
    /\ i \in 1..Len(transitions)
    /\ transitions[i].awaiting = "exit"
    /\ IF resolved
       THEN /\ stateManager' = [stateManager EXCEPT !.currentStateName = transitions[i].newState]
            /\ transitions' = [transitions EXCEPT ![i].awaiting = "enter"]
            /\ smCall' = [op |-> "exitSettled", rejected |-> "none",
                          before |-> transitions[i].before,
                          calls |-> {[fn |-> "enter", state |-> transitions[i].newState]},
                          inFlight |-> Len(transitions)]
       ELSE /\ stateManager' = [stateManager EXCEPT !.isTransitioning = FALSE]
            /\ transitions' = Without(transitions, i)
            /\ smCall' = [op |-> "changeStateFailed", rejected |-> "exit",
                          before |-> transitions[i].before, calls |-> {},
                          inFlight |-> Len(transitions)]

\* The i-th awaiting changeState resumes after enter(): the call resolves or
\* rejects, and finally clears _isTransitioning.
EnterSettles(i, resolved) ==
    /\ i \in 1..Len(transitions)
    /\ transitions[i].awaiting = "enter"
    /\ stateManager' = [stateManager EXCEPT !.isTransitioning = FALSE]
    /\ transitions' = Without(transitions, i)
    /\ smCall' = [op |-> IF resolved THEN "changeStateDone" ELSE "changeStateFailed",
                  rejected |-> IF resolved THEN "none" ELSE "enter",
                  before |-> transitions[i].before, calls |-> {},
                  inFlight |-> Len(transitions)]

\* update(deltaTime); throws tells that the state's update throws, which
\* update rethrows.
StateUpdate(throws) ==
    /\ smCall' = [op |-> "update",
                  rejected |-> IF /\ stateManager.currentStateName # "null"
                                  /\ ~stateManager.isTransitioning
                                  /\ throws
                               THEN "update" ELSE "none",
                  before |-> stateManager.currentStateName,
                  calls |-> IF /\ stateManager.currentStateName # "null"
                               /\ ~stateManager.isTransitioning
                            THEN {[fn |-> "update", state |-> stateManager.currentStateName]}
                            ELSE {},
                  inFlight |-> Len(transitions)]
    /\ UNCHANGED <<stateManager, transitions>>

\* clear()
StateClear ==
    /\ stateManager' = [states |-> {}, currentStateName |-> "null", isTransitioning |-> FALSE]
    /\ smCall' = [NoSmCall EXCEPT !.op = "clear", !.before = stateManager.currentStateName,
                                  !.inFlight = Len(transitions)]
    /\ UNCHANGED transitions


\* ------------------------------------------------------------- AssetLoader
ASSET_TYPES == [IMAGE |-> "image", SPRITE |-> "sprite", AUDIO |-> "audio"]

CACHE_SETTINGS == [MAX_RETRIES |-> 3, TIMEOUT |-> 5000]

\* The urls and the types loadAsset is called with; "font" is not a type of
\* ASSET_TYPES.  The id of an asset takes its default, the url.
Urls == {"a.png", "b.png"}

LoadTypes == {"image", "font"}

\* What an error handler does when it is called.
HandlerBehaviours == {"returns", "throws"}

\* new AssetLoader(); 0 tells that _loadingPromises has no entry for the url.
AssetLoaderInit ==
    /\ assetLoader = [cache |-> {}, loadingPromises |-> [url \in Urls |-> 0],
                      errorHandlers |-> {}]
    /\ loadPromises = <<>>
    /\ callers = <<>>

\* The catch block of _loadAssetByType: the attempt is counted, and the
\* promise rejects at MAX_RETRIES attempts or else waits for the retry timer.
attemptFailed(load) ==
    IF load.attempts + 1 >= CACHE_SETTINGS.MAX_RETRIES
    THEN [load EXCEPT !.attempts = @ + 1, !.status = "rejected"]
    ELSE [load EXCEPT !.attempts = @ + 1, !.status = "waiting"]

\* One pass of the while loop of _loadAssetByType up to its await: a type of
\* ASSET_TYPES calls the underlying loader, any other type throws.
attempt(load) ==
    IF load.type \in {ASSET_TYPES.IMAGE, ASSET_TYPES.SPRITE, ASSET_TYPES.AUDIO}
    THEN [load EXCEPT !.status = "loading", !.loaderCalls = @ + 1]
    ELSE attemptFailed(load)

\* _loadAssetByType(url, type, id) up to its first await.
loadAssetByType(url, type) ==
    attempt([url |-> url, type |-> type, attempts |-> 0, loaderCalls |-> 0,
             status |-> "new"])

\* loadAsset(url, type) up to its await: a cached asset resolves the call, a
\* load in flight for the url is returned as it is, and otherwise a load is
\* started and awaited.
LoadAsset(url, type) ==
    /\ Len(callers) < MaxCallers
    /\ IF url \in assetLoader.cache
       THEN /\ callers' = Append(callers, [url |-> url, promise |-> 0, joined |-> FALSE,
                                           outcome |-> "success"])
            /\ UNCHANGED <<assetLoader, loadPromises>>
       ELSE IF assetLoader.loadingPromises[url] # 0
       THEN /\ callers' = Append(callers, [url |-> url,
                                           promise |-> assetLoader.loadingPromises[url],
                                           joined |-> TRUE, outcome |-> "pending"])
            /\ UNCHANGED <<assetLoader, loadPromises>>
       ELSE /\ Len(loadPromises) < MaxLoads
            /\ loadPromises' = Append(loadPromises, loadAssetByType(url, type))
            /\ assetLoader' = [assetLoader EXCEPT
                                 !.loadingPromises[url] = Len(loadPromises) + 1]
            /\ callers' = Append(callers, [url |-> url, promise |-> Len(loadPromises) + 1,
                                           joined |-> FALSE, outcome |-> "pending"])

\* The underlying loader of the p-th load settles: _loadImage or _loadAudio
\* resolves (ok) or rejects, by an error event or by the timeout.
LoaderSettles(p, ok) ==
    /\ p \in 1..Len(loadPromises)
    /\ loadPromises[p].status = "loading"
    /\ IF ok
       THEN /\ loadPromises' = [loadPromises EXCEPT ![p].status = "fulfilled"]
            /\ assetLoader' = [assetLoader EXCEPT !.cache = @ \cup {loadPromises[p].url}]
       ELSE /\ loadPromises' = [loadPromises EXCEPT ![p] = attemptFailed(@)]
            /\ UNCHANGED assetLoader
    /\ UNCHANGED callers

\* The retry timer of the p-th load fires and the while loop goes round.
RetryTimer(p) ==
    /\ p \in 1..Len(loadPromises)
    /\ loadPromises[p].status = "waiting"
    /\ loadPromises' = [loadPromises EXCEPT ![p] = attempt(@)]
    /\ UNCHANGED <<assetLoader, callers>>

\* The i-th call of loadAsset settles once its load has.  The call that
\* returned the load in flight settles as the load did.  The call that
\* started the load resumes after its await: it deletes the entry of
\* _loadingPromises and resolves, or it catches the rejection, notifies the
\* error handlers and resolves with {success: false, error}, unless a handler
\* throws.
CallerSettles(i) ==
    /\ i \in 1..Len(callers)
    /\ callers[i].outcome = "pending"
    /\ loadPromises[callers[i].promise].status \in {"fulfilled", "rejected"}
    /\ IF callers[i].joined
       THEN /\ callers' = [callers EXCEPT ![i].outcome =
                             IF loadPromises[callers[i].promise].status = "fulfilled"
                             THEN "success" ELSE "rejected"]
            /\ UNCHANGED assetLoader
       ELSE IF loadPromises[callers[i].promise].status = "fulfilled"
       THEN /\ assetLoader' = [assetLoader EXCEPT !.loadingPromises[callers[i].url] = 0]
            /\ callers' = [callers EXCEPT ![i].outcome = "success"]
       ELSE /\ callers' = [callers EXCEPT ![i].outcome =
                             IF "throws" \in assetLoader.errorHandlers
                             THEN "rejected" ELSE "failure"]
            /\ UNCHANGED assetLoader
    /\ UNCHANGED loadPromises

\* addErrorHandler(handler)
AddErrorHandler(behaviour) ==
    /\ assetLoader' = [assetLoader EXCEPT !.errorHandlers = @ \cup {behaviour}]
    /\ UNCHANGED <<loadPromises, callers>>

\* clearCache()
ClearCache ==
    /\ assetLoader' = [assetLoader EXCEPT !.cache = {}]
    /\ UNCHANGED <<loadPromises, callers>>

\* removeFromCache(id)
RemoveFromCache(id) ==
    /\ assetLoader' = [assetLoader EXCEPT !.cache = @ \ {id}]
    /\ UNCHANGED <<loadPromises, callers>>


\* ---------------------------------------------------------- ResourceLoader
\* One url more than the cache may hold.
ResourceUrls == 1..(maxCacheSize + 1)

NoResourceCall == [op |-> "none", url |-> 0, result |-> "none"]

\* The private constructor; an entry of loadingAssets is "none" (no entry),
\* "fetching" (fetch pending), "blob" (response.blob() pending), "resolved"
\* (the promise resolved and loadAsset has not resumed yet) or "rejected".
ResourceLoaderInit ==
    /\ resourceLoader = [cache |-> <<>>, loadingAssets |-> [url \in ResourceUrls |-> "none"]]
    /\ resourceClock = 0
    /\ resourceCall = NoResourceCall

\* cache.has(url)
cacheHas(cache, url) == \E i \in 1..Len(cache) : cache[i].url = url

\* cache.set(url, asset): an existing key keeps its place in the order.
cacheSet(cache, url, timestamp) ==
    IF cacheHas(cache, url)
    THEN [i \in 1..Len(cache) |->
            IF cache[i].url = url THEN [url |-> url, timestamp |-> timestamp] ELSE cache[i]]
    ELSE Append(cache, [url |-> url, timestamp |-> timestamp])

\* cache.delete(url)
cacheDelete(cache, url) == SelectSeq(cache, LAMBDA e : e.url # url)

\* The loop of evictOldestAsset from entry i on: the first entry whose
\* timestamp is less than every one before it and than Date.now().
RECURSIVE oldestFrom(_, _, _, _)
oldestFrom(cache, i, oldestTimestamp, oldestUrl) ==
    IF i > Len(cache) THEN oldestUrl
    ELSE IF cache[i].timestamp < oldestTimestamp
    THEN oldestFrom(cache, i + 1, cache[i].timestamp, cache[i].url)
    ELSE oldestFrom(cache, i + 1, oldestTimestamp, oldestUrl)

\* evictOldestAsset(); now is Date.now(), 0 is the null oldestUrl.
evictOldestAsset(cache, now) ==
    IF oldestFrom(cache, 1, now, 0) # 0
    THEN cacheDelete(cache, oldestFrom(cache, 1, now, 0))
    ELSE cache

\* addToCache(url, asset): timestamp is the asset's, stamped by the caller,
\* and now is Date.now() as evictOldestAsset reads it afterwards.
addToCache(cache, url, timestamp, now) ==
    IF Len(cache) >= maxCacheSize
    THEN cacheSet(evictOldestAsset(cache, now), url, timestamp)
    ELSE cacheSet(cache, url, timestamp)

\* Date.now() advances.
ResourceClockAdvance ==
    /\ resourceClock < MaxResourceClock
    /\ resourceClock' = resourceClock + 1
    /\ UNCHANGED <<resourceLoader, resourceCall>>

\* loadAsset(url, forceReload) up to its await: a cached asset is returned
\* unless forceReload, a load in the table is returned as it is, and
\* otherwise a fetch is started and entered in the table.
ResourceLoadAsset(url, forceReload) ==
    /\ IF ~forceReload /\ cacheHas(resourceLoader.cache, url)
       THEN /\ resourceCall' = [op |-> "loadAsset", url |-> url, result |-> "cached"]
            /\ UNCHANGED resourceLoader
       ELSE IF resourceLoader.loadingAssets[url] # "none"
       THEN /\ resourceCall' = [op |-> "loadAsset", url |-> url, result |-> "joined"]
            /\ UNCHANGED resourceLoader
       ELSE /\ resourceLoader' = [resourceLoader EXCEPT !.loadingAssets[url] = "fetching"]
            /\ resourceCall' = [op |-> "loadAsset", url |-> url, result |-> "started"]
    /\ UNCHANGED resourceClock

\* fetch(url) settles: with an ok response fetchAndCacheAsset goes on to
\* response.blob(); otherwise it rejects, the await in loadAsset throws and
\* the entry of loadingAssets is left in the table.
FetchSettles(url, ok) ==
    /\ resourceLoader.loadingAssets[url] = "fetching"
    /\ resourceLoader' = [resourceLoader EXCEPT
                            !.loadingAssets[url] = IF ok THEN "blob" ELSE "rejected"]
    /\ resourceCall' = [op |-> "fetchSettled", url |-> url,
                        result |-> IF ok THEN "ok" ELSE "rejected"]
    /\ UNCHANGED resourceClock

\* response.blob() settles and fetchAndCacheAsset resumes: when it resolved
\* the asset is stamped with Date.now() and added to the cache, and the
\* promise in the table resolves; when it rejected the entry is left in the
\* table.  With a full cache evictOldestAsset reads Date.now() a second
\* time, now, which is the stamp or later.
BlobSettles(url, ok, now) ==
    /\ resourceLoader.loadingAssets[url] = "blob"
    /\ now \in resourceClock..MaxResourceClock
    /\ now = resourceClock \/ (ok /\ Len(resourceLoader.cache) >= maxCacheSize)
    /\ IF ok
       THEN resourceLoader' =
               [cache |-> addToCache(resourceLoader.cache, url, resourceClock, now),
                loadingAssets |-> [resourceLoader.loadingAssets EXCEPT ![url] = "resolved"]]
       ELSE resourceLoader' = [resourceLoader EXCEPT !.loadingAssets[url] = "rejected"]
    /\ resourceCall' = [op |-> "blobSettled", url |-> url,
                        result |-> IF ok THEN "cached" ELSE "rejected"]
    /\ resourceClock' = now

\* loadAsset resumes after 'await loadPromise', in a later microtask than
\* the one that resolved the promise, and deletes the entry of loadingAssets.
LoadAssetResumes(url) ==
    /\ resourceLoader.loadingAssets[url] = "resolved"
    /\ resourceLoader' = [resourceLoader EXCEPT !.loadingAssets[url] = "none"]
    /\ resourceCall' = [op |-> "loadAssetResumed", url |-> url, result |-> "none"]
    /\ UNCHANGED resourceClock

\* clearCache()
ResourceClearCache ==
    /\ resourceLoader' = [resourceLoader EXCEPT !.cache = <<>>]
    /\ resourceCall' = [NoResourceCall EXCEPT !.op = "clearCache"]
    /\ UNCHANGED resourceClock

\* removeFromCache(url)
ResourceRemoveFromCache(url) ==
    /\ resourceLoader' = [resourceLoader EXCEPT !.cache = cacheDelete(@, url)]
    /\ resourceCall' = [op |-> "removeFromCache", url |-> url, result |-> "none"]
    /\ UNCHANGED resourceClock

\* getCacheSize()
getCacheSize == Len(resourceLoader.cache)


\* ------------------------------------------------------------ AudioManager
\* A Howl is an object of its own: howls holds every Howl created, in the
\* order of creation, and musicTracks, currentMusic, nextMusic and a fade
\* timer's track refer to a Howl by its place in howls (NullHowl for null).
\*
\* A volume is kept as its level, in units of 1/FadeSteps of the full
\* volume, and the rounding of the floating-point value against that level:
\* the volumes given to setVolume are exact, while the sums and differences
\* of the fade steps are rounded.  Starting from the full volume the
\* differences come out below the level, so the last step down asks for a
\* negative volume; starting from 0 the sums come out above the level, so
\* the last step up asks for more than the full volume.
TrackIds == {"intro", "battle"}

NullHowl == 0

MIN_VOLUME == 0

MAX_VOLUME == FadeSteps

Roundings == {"below", "exact", "above"}

Exactly(level) == [level |-> level, rounding |-> "exact"]

NoAudioCall == [op |-> "none", thrown |-> FALSE, fadesBefore |-> 0, started |-> FALSE,
                before |-> NullHowl, kind |-> "none", startedFor |-> NullHowl]

\* The private constructor.
AudioManagerInit ==
    /\ audio = [musicTracks |-> [id \in TrackIds |-> NullHowl], currentMusic |-> NullHowl,
                nextMusic |-> NullHowl, currentVolume |-> MAX_VOLUME, isFading |-> FALSE]
    /\ howls = <<>>
    /\ fades = <<>>
    /\ audioCall = NoAudioCall

\* vol <= MIN_VOLUME, for a volume a Howl holds
AtMinVolume(vol) == vol.level < MIN_VOLUME \/ (vol.level = MIN_VOLUME /\ vol.rounding # "above")

\* 0 <= vol <= 1
InVolumeRange(vol) ==
    /\ vol.level >= MIN_VOLUME
    /\ vol.level <= MAX_VOLUME
    /\ ~(vol.level = MIN_VOLUME /\ vol.rounding = "below")
    /\ ~(vol.level = MAX_VOLUME /\ vol.rounding = "above")

\* Howl.volume(vol): a volume outside [0, 1] is ignored.
howlVolume(howl, vol) ==
    IF InVolumeRange(vol) THEN [howl EXCEPT !.volume = vol] ELSE howl

\* vol - volumeStep in floating point: the values it can have.
VolumeMinus(vol, volumeStep) ==
    IF volumeStep = 0 THEN {vol}
    ELSE {[level |-> vol.level - volumeStep, rounding |-> r] :
             r \in (IF vol.rounding \in {"exact", "below"} THEN {"below"} ELSE Roundings)}

\* vol + volumeStep in floating point: the values it can have.
VolumePlus(vol, volumeStep) ==
    IF volumeStep = 0 THEN {vol}
    ELSE {[level |-> vol.level + volumeStep, rounding |-> r] :
             r \in (IF vol.rounding \in {"exact", "above"} THEN {"above"} ELSE Roundings)}

\* loadMusic(track) up to the promise it returns: a new Howl is created for
\* every call, at track.volume or, when the track has none, at
\* currentVolume.
LoadMusic(id, hasVolume, volume) ==
    /\ Len(howls) < MaxHowls
    /\ howls' = Append(howls, [id |-> id, playing |-> FALSE, load |-> "loading",
                               volume |-> IF hasVolume THEN Exactly(volume)
                                          ELSE Exactly(audio.currentVolume)])
    /\ audioCall' = [NoAudioCall EXCEPT !.op = "loadMusic"]
    /\ UNCHANGED <<audio, fades>>

\* The 'load' event of a Howl: the listener of loadMusic registers it under
\* its track id, in place of the Howl registered there before.
MusicLoaded(h) ==
    /\ h \in 1..Len(howls)
    /\ howls[h].load = "loading"
    /\ howls' = [howls EXCEPT ![h].load = "loaded"]
    /\ audio' = [audio EXCEPT !.musicTracks[howls[h].id] = h]
    /\ audioCall' = [NoAudioCall EXCEPT !.op = "load"]
    /\ UNCHANGED fades

\* The 'loaderror' event of a Howl: the promise of loadMusic is rejected and
\* the Howl is never registered.
MusicLoadError(h) ==
    /\ h \in 1..Len(howls)
    /\ howls[h].load = "loading"
    /\ howls' = [howls EXCEPT ![h].load = "error"]
    /\ audioCall' = [NoAudioCall EXCEPT !.op = "loaderror", !.thrown = TRUE]
    /\ UNCHANGED <<audio, fades>>

\* playMusic(trackId) up to its await: it throws for an unknown track,
\* returns while isFading, starts the cross-fade of crossFade() when the
\* current music is playing, and otherwise plays the track at once.
PlayMusic(trackId) ==
    LET newTrack == audio.musicTracks[trackId] IN
    IF newTrack = NullHowl
    THEN /\ audioCall' = [NoAudioCall EXCEPT !.op = "playMusic", !.thrown = TRUE,
                                             !.fadesBefore = Len(fades),
                                             !.before = audio.currentMusic]
         /\ UNCHANGED <<audio, howls, fades>>
    ELSE IF audio.isFading
    THEN /\ audioCall' = [NoAudioCall EXCEPT !.op = "playMusic", !.fadesBefore = Len(fades),
                                             !.before = audio.currentMusic]
         /\ UNCHANGED <<audio, howls, fades>>
    ELSE IF audio.currentMusic # NullHowl /\ howls[audio.currentMusic].playing
    THEN /\ Len(fades) < MaxFades
         /\ audio' = [audio EXCEPT !.nextMusic = newTrack, !.isFading = TRUE]
         /\ howls' = [howls EXCEPT ![newTrack] =
                         [howlVolume(@, Exactly(0)) EXCEPT !.playing = TRUE]]
         /\ fades' = Append(fades, [kind |-> "cross", track |-> newTrack,
                                    volumeStep |-> audio.currentVolume \div FadeSteps])
         /\ audioCall' = [NoAudioCall EXCEPT !.op = "playMusic", !.fadesBefore = Len(fades),
                                             !.started = TRUE, !.before = audio.currentMusic]
    ELSE /\ audio' = [audio EXCEPT !.currentMusic = newTrack]
         /\ howls' = [howls EXCEPT ![newTrack] =
                         [howlVolume(@, Exactly(audio.currentVolume)) EXCEPT !.playing = TRUE]]
         /\ audioCall' = [NoAudioCall EXCEPT !.op = "playMusic", !.fadesBefore = Len(fades),
                                             !.before = audio.currentMusic]
         /\ UNCHANGED fades

\* stopMusic() up to its await: it returns when there is no current music
\* or while isFading, and otherwise starts the timer of fadeOut().
StopMusic ==
    IF audio.currentMusic = NullHowl \/ audio.isFading
    THEN /\ audioCall' = [NoAudioCall EXCEPT !.op = "stopMusic", !.fadesBefore = Len(fades),
                                             !.before = audio.currentMusic]
         /\ UNCHANGED <<audio, howls, fades>>
    ELSE /\ Len(fades) < MaxFades
         /\ fades' = Append(fades, [kind |-> "out", track |-> audio.currentMusic,
                                    volumeStep |-> audio.currentVolume \div FadeSteps])
         /\ audioCall' = [NoAudioCall EXCEPT !.op = "stopMusic", !.fadesBefore = Len(fades),
                                             !.started = TRUE, !.before = audio.currentMusic]
         /\ UNCHANGED <<audio, howls>>

\* setVolume(volume)
SetVolume(volume) ==
    /\ audio' = [audio EXCEPT !.currentVolume = Max(MIN_VOLUME, Min(MAX_VOLUME, volume))]
    /\ howls' = IF audio.currentMusic # NullHowl
                THEN [howls EXCEPT ![audio.currentMusic] =
                        howlVolume(@, Exactly(Max(MIN_VOLUME, Min(MAX_VOLUME, volume))))]
                ELSE howls
    /\ audioCall' = [NoAudioCall EXCEPT !.op = "setVolume"]
    /\ UNCHANGED fades

\* The interval callback of the i-th fade timer, a cross-fade started by
\* crossFade(): it reads currentMusic and nextMusic as they are now, and
\* throws when one of them is null.  Both volumes are read before either
\* is set.
CrossFadeTick(i) ==
    /\ i \in 1..Len(fades)
    /\ fades[i].kind = "cross"
    /\ IF audio.currentMusic = NullHowl \/ audio.nextMusic = NullHowl
       THEN /\ audioCall' = [NoAudioCall EXCEPT !.op = "fadeTick", !.thrown = TRUE]
            /\ UNCHANGED <<audio, howls, fades>>
       ELSE IF AtMinVolume(howls[audio.currentMusic].volume)
       THEN /\ fades' = Without(fades, i)
            /\ howls' = [howls EXCEPT ![audio.currentMusic].playing = FALSE]
            /\ audio' = [audio EXCEPT !.currentMusic = audio.nextMusic,
                                      !.nextMusic = NullHowl, !.isFading = FALSE]
            /\ audioCall' = [NoAudioCall EXCEPT !.op = "fadeEnded", !.kind = "cross",
                                                !.startedFor = fades[i].track]
       ELSE /\ \E lowered \in VolumeMinus(howls[audio.currentMusic].volume, fades[i].volumeStep),
                  raised \in VolumePlus(howls[audio.nextMusic].volume, fades[i].volumeStep) :
                  howls' = [[howls EXCEPT ![audio.currentMusic] = howlVolume(@, lowered)]
                               EXCEPT ![audio.nextMusic] = howlVolume(@, raised)]
            /\ audioCall' = [NoAudioCall EXCEPT !.op = "fadeTick", !.kind = "cross"]
            /\ UNCHANGED <<audio, fades>>

\* The interval callback of the i-th fade timer, a fade-out started by
\* fadeOut(track): at volume 0 the timer is cleared and stopMusic resumes,
\* stops currentMusic as it is now (throwing when it is null) and sets it
\* to null.
FadeOutTick(i) ==
    /\ i \in 1..Len(fades)
    /\ fades[i].kind = "out"
    /\ IF AtMinVolume(howls[fades[i].track].volume)
       THEN /\ fades' = Without(fades, i)
            /\ IF audio.currentMusic = NullHowl
               THEN /\ audioCall' = [NoAudioCall EXCEPT !.op = "fadeEnded", !.kind = "out",
                                                        !.thrown = TRUE,
                                                        !.startedFor = fades[i].track]
                    /\ UNCHANGED <<audio, howls>>
               ELSE /\ howls' = [howls EXCEPT ![audio.currentMusic].playing = FALSE]
                    /\ audio' = [audio EXCEPT !.currentMusic = NullHowl]
                    /\ audioCall' = [NoAudioCall EXCEPT !.op = "fadeEnded", !.kind = "out",
                                                        !.startedFor = fades[i].track]
       ELSE /\ \E lowered \in VolumeMinus(howls[fades[i].track].volume, fades[i].volumeStep) :
                  howls' = [howls EXCEPT ![fades[i].track] = howlVolume(@, lowered)]
            /\ audioCall' = [NoAudioCall EXCEPT !.op = "fadeTick", !.kind = "out"]
            /\ UNCHANGED <<audio, fades>>

\* dispose(): the Howls registered in musicTracks are unloaded.
AudioDispose ==
    /\ audio' = [audio EXCEPT !.musicTracks = [id \in TrackIds |-> NullHowl],
                              !.currentMusic = NullHowl, !.nextMusic = NullHowl]
    /\ howls' = [h \in 1..Len(howls) |->
                   IF \E id \in TrackIds : audio.musicTracks[id] = h
                   THEN [howls[h] EXCEPT !.playing = FALSE]
                   ELSE howls[h]]
    /\ audioCall' = [NoAudioCall EXCEPT !.op = "dispose"]
    /\ UNCHANGED fades


\* ------------------------------------------------------------------ Player
\* Times are in units of 125 ms.
shootCooldown == 2

NoPlayerCall == [op |-> "none", ret |-> "none", sinceLast |-> 0, soundPlayed |-> FALSE,
                 thrown |-> "none"]

\* new Player(initialPosition): shootSound is the Sound that was loaded, or
\* the fallback object of the catch block, whose play() returns undefined.
\* Date.now() is far more than shootCooldown from 0.
PlayerInit ==
    /\ \E sound \in {"Sound", "fallback"} :
          player = [position |-> [x |-> 0, y |-> 0], velocity |-> [x |-> 0, y |-> 0],
                    lastShootTime |-> 0, shootSound |-> sound]
    /\ playerClock = shootCooldown
    /\ playerCall = NoPlayerCall

\* Date.now() advances.
PlayerClockAdvance ==
    /\ playerClock < MaxPlayerClock
    /\ playerClock' = playerClock + 1
    /\ UNCHANGED <<player, playerCall>>

\* validateOptions(options) of Projectile.ts: the message of the error it
\* throws, or "none".  options is a record of the fields given; a vector
\* is a record of its components that are numbers, so that a component
\* that is missing or not a number is not in its domain.
validateOptions(options) ==
    IF \/ "position" \notin DOMAIN options
       \/ "x" \notin DOMAIN options.position
       \/ "y" \notin DOMAIN options.position
    THEN "Invalid position provided to Projectile"
    ELSE IF \/ "direction" \notin DOMAIN options
            \/ "x" \notin DOMAIN options.direction
            \/ "y" \notin DOMAIN options.direction
    THEN "Invalid direction provided to Projectile"
    ELSE IF /\ "speed" \in DOMAIN options
            /\ options.speed # 0
            /\ \/ options.speed < PROJECTILE_CONFIG.MIN_SPEED
               \/ options.speed > PROJECTILE_CONFIG.MAX_SPEED
    THEN "Speed must be between 100 and 2000"
    ELSE "none"

\* shoot(): null within the cooldown; otherwise the sound is played (the
\* fallback's play() returns undefined, so .catch throws), lastShootTime is
\* set and new Projectile({x, y}) is constructed, and an error of any of
\* these is caught and turned into null.
Shoot ==
    /\ IF playerClock - player.lastShootTime < shootCooldown
       THEN /\ playerCall' = [NoPlayerCall EXCEPT !.op = "shoot", !.ret = "null",
                                !.sinceLast = playerClock - player.lastShootTime]
            /\ UNCHANGED player
       ELSE IF player.shootSound = "fallback"
       THEN /\ playerCall' = [NoPlayerCall EXCEPT !.op = "shoot", !.ret = "null",
                                !.sinceLast = playerClock - player.lastShootTime,
                                !.soundPlayed = TRUE, !.thrown = "TypeError"]
            /\ UNCHANGED player
       ELSE /\ player' = [player EXCEPT !.lastShootTime = playerClock]
            /\ playerCall' =
                 [NoPlayerCall EXCEPT
                    !.op = "shoot",
                    !.ret = IF validateOptions([x |-> player.position.x,
                                                y |-> player.position.y]) = "none"
                            THEN "Projectile" ELSE "null",
                    !.sinceLast = playerClock - player.lastShootTime,
                    !.soundPlayed = TRUE,
                    !.thrown = validateOptions([x |-> player.position.x,
                                                y |-> player.position.y])]
    /\ UNCHANGED playerClock

\* update(deltaTime) of the Player
PlayerUpdate(deltaTime) ==
    /\ player.position.x + player.velocity.x * deltaTime \in 0..MaxPlayerPosition
    /\ player.position.y + player.velocity.y * deltaTime \in 0..MaxPlayerPosition
    /\ player' = [player EXCEPT
                    !.position = [x |-> player.position.x + player.velocity.x * deltaTime,
                                  y |-> player.position.y + player.velocity.y * deltaTime]]
    /\ playerCall' = [NoPlayerCall EXCEPT !.op = "update"]
    /\ UNCHANGED playerClock

\* setVelocity(velocity)
PlayerSetVelocity(velocity) ==
    /\ player' = [player EXCEPT !.velocity = velocity]
    /\ playerCall' = [NoPlayerCall EXCEPT !.op = "setVelocity"]
    /\ UNCHANGED playerClock


\* -------------------------------------------------------- ProjectileSystem
\* Times are in seconds, so deltaTime of update() is the clock difference.
DEFAULT_PROJECTILE_CONFIG == [speed |-> 10, damage |-> 10, range |-> 1000, lifetime |-> 3]

\* The configurations createProjectile is given: none, or range and
\* lifetime (and a speed of 1) overridden.
PsConfigs ==
    {DEFAULT_PROJECTILE_CONFIG} \cup
    {[DEFAULT_PROJECTILE_CONFIG EXCEPT !.speed = 1, !.range = r, !.lifetime = l] :
        r \in 1..MaxPsRange, l \in 1..MaxPsLifetime}

\* The normalized directions createProjectile is given.
PsDirections == {[x |-> 1, y |-> 0], [x |-> 0, y |-> 1], [x |-> 0, y |-> 0]}

NoPsCall == [op |-> "none", returned |-> <<>>, earlier |-> {}, thrown |-> FALSE]

\* new ProjectileSystem()
ProjectileSystemInit ==
    /\ projectileSystem = [projectiles |-> <<>>, created |-> 0, lastUpdateTime |-> 0]
    /\ psClock = 0
    /\ psCall = NoPsCall

\* Date.now() advances.
PsClockAdvance ==
    /\ psClock < MaxPsClock
    /\ psClock' = psClock + 1
    /\ UNCHANGED <<projectileSystem, psCall>>

\* createProjectile(position, direction, config) at the origin; the id is
\* fresh.
CreateProjectile(direction, projectileConfig) ==
    /\ projectileSystem.created < MaxProjectiles
    /\ projectileSystem' =
          [projectileSystem EXCEPT
              !.created = @ + 1,
              !.projectiles = Append(@, [id |-> projectileSystem.created + 1,
                                         position |-> [x |-> 0, y |-> 0],
                                         velocity |-> [x |-> direction.x * projectileConfig.speed,
                                                       y |-> direction.y * projectileConfig.speed],
                                         config |-> projectileConfig,
                                         createdAt |-> psClock,
                                         isActive |-> TRUE])]
    /\ psCall' = [NoPsCall EXCEPT !.op = "createProjectile",
                                  !.earlier = psCall.earlier \cup
                                     (IF psCall.op = "update"
                                      THEN {psCall.returned[k] : k \in 1..Len(psCall.returned)}
                                      ELSE {})]
    /\ UNCHANGED psClock

\* The position of the projectile after the step of update().
psMoved(projectile, deltaTime) ==
    [x |-> projectile.position.x + projectile.velocity.x * deltaTime,
     y |-> projectile.position.y + projectile.velocity.y * deltaTime]

\* The lifetime check of update().
psLifetimeOver(projectile, currentTime) ==
    currentTime - projectile.createdAt >= projectile.config.lifetime

\* The range check of update(): calculateDistance(projectile) >= range, the
\* distance being that of the position from the origin.
psRangeOver(position, range) ==
    position.x * position.x + position.y * position.y >= range * range

\* The body of the forEach of update() for one projectile: the projectile
\* it leaves.
psUpdateOne(projectile, currentTime, deltaTime) ==
    IF ~projectile.isActive THEN projectile
    ELSE [projectile EXCEPT
            !.position = psMoved(projectile, deltaTime),
            !.isActive = ~(\/ psLifetimeOver(projectile, currentTime)
                           \/ psRangeOver(psMoved(projectile, deltaTime),
                                          projectile.config.range))]

\* The body of the forEach of update() for one projectile: the ids it
\* pushes to expiredProjectiles.
psPushed(projectile, currentTime, deltaTime) ==
    IF ~projectile.isActive THEN <<>>
    ELSE (IF psLifetimeOver(projectile, currentTime) THEN <<projectile.id>> ELSE <<>>)
         \o (IF psRangeOver(psMoved(projectile, deltaTime), projectile.config.range)
             THEN <<projectile.id>> ELSE <<>>)

\* expiredProjectiles after the forEach has run from the i-th projectile on.
RECURSIVE psExpiredFrom(_, _, _, _)
psExpiredFrom(all, i, currentTime, deltaTime) ==
    IF i > Len(all) THEN <<>>
    ELSE psPushed(all[i], currentTime, deltaTime)
         \o psExpiredFrom(all, i + 1, currentTime, deltaTime)

\* update()
PsUpdate ==
    /\ projectileSystem' =
          [projectileSystem EXCEPT
              !.projectiles = [i \in 1..Len(@) |->
                                 psUpdateOne(@[i], psClock,
                                             psClock - projectileSystem.lastUpdateTime)],
              !.lastUpdateTime = psClock]
    /\ psCall' = [op |-> "update",
                  returned |-> psExpiredFrom(projectileSystem.projectiles, 1, psClock,
                                             psClock - projectileSystem.lastUpdateTime),
                  earlier |-> psCall.earlier \cup
                              (IF psCall.op = "update"
                               THEN {psCall.returned[k] : k \in 1..Len(psCall.returned)}
                               ELSE {}),
                  thrown |-> FALSE]
    /\ UNCHANGED psClock

\* removeProjectile(projectileId)
RemoveProjectile(projectileId) ==
    /\ IF \E i \in 1..Len(projectileSystem.projectiles) :
             projectileSystem.projectiles[i].id = projectileId
       THEN /\ projectileSystem' =
                  [projectileSystem EXCEPT
                      !.projectiles = SelectSeq(@, LAMBDA p : p.id # projectileId)]
            /\ psCall' = [NoPsCall EXCEPT !.op = "removeProjectile",
                                          !.earlier = psCall.earlier \cup
                                             (IF psCall.op = "update"
                                              THEN {psCall.returned[k] :
                                                      k \in 1..Len(psCall.returned)}
                                              ELSE {})]
       ELSE /\ psCall' = [NoPsCall EXCEPT !.op = "removeProjectile", !.thrown = TRUE,
                                          !.earlier = psCall.earlier \cup
                                             (IF psCall.op = "update"
                                              THEN {psCall.returned[k] :
                                                      k \in 1..Len(psCall.returned)}
                                              ELSE {})]
            /\ UNCHANGED projectileSystem
    /\ UNCHANGED psClock


\* -------------------------------------------------------- KeyboardControls
DEFAULT_KEYBOARD_CONFIG ==
    [left |-> {"ArrowLeft", "KeyA"}, right |-> {"ArrowRight", "KeyD"},
     shoot |-> {"Space", "KeyX"}]

\* The key codes of the events explored; "KeyQ" is mapped to no action by
\* default.
KeyCodes == {"ArrowLeft", "KeyA", "ArrowRight", "Space", "KeyQ"}

KeyActions == {"left", "right", "shoot"}

\* The configurations updateConfig is given.
PartialKeyboardConfigs == {[left |-> {"KeyQ"}], [left |-> {"ArrowLeft", "KeyA"}]}

\* new KeyboardControls()
KeyboardControlsInit ==
    /\ keyboard = [state |-> [left |-> FALSE, right |-> FALSE, shoot |-> FALSE],
                   config |-> DEFAULT_KEYBOARD_CONFIG, attached |-> FALSE]
    /\ held = {}
    /\ keyboardCall = [op |-> "none", code |-> "none"]

\* initialize()
KeyboardInitialize ==
    /\ keyboard' = [keyboard EXCEPT !.attached = TRUE]
    /\ keyboardCall' = [op |-> "initialize", code |-> "none"]
    /\ UNCHANGED held

\* cleanup()
KeyboardCleanup ==
    /\ keyboard' = [keyboard EXCEPT !.attached = FALSE]
    /\ keyboardCall' = [op |-> "cleanup", code |-> "none"]
    /\ UNCHANGED held

\* handleKeyDown(event) and handleKeyUp(event): the state they leave.
handleKeyDown(state, mapping, code) ==
    [action \in KeyActions |-> IF code \in mapping[action] THEN TRUE ELSE state[action]]

handleKeyUp(state, mapping, code) ==
    [action \in KeyActions |-> IF code \in mapping[action] THEN FALSE ELSE state[action]]

\* A keydown event reaches the attached listener.
KeyDown(code) ==
    /\ keyboard.attached
    /\ keyboard' = [keyboard EXCEPT !.state = handleKeyDown(@, keyboard.config, code)]
    /\ held' = held \cup {code}
    /\ keyboardCall' = [op |-> "keydown", code |-> code]

\* A keyup event of a key that is down reaches the attached listener.
KeyUp(code) ==
    /\ keyboard.attached
    /\ code \in held
    /\ keyboard' = [keyboard EXCEPT !.state = handleKeyUp(@, keyboard.config, code)]
    /\ held' = held \ {code}
    /\ keyboardCall' = [op |-> "keyup", code |-> code]

\* updateConfig(newConfig)
KeyboardUpdateConfig(newConfig) ==
    /\ keyboard' = [keyboard EXCEPT !.config = newConfig @@ keyboard.config]
    /\ keyboardCall' = [op |-> "updateConfig", code |-> "none"]
    /\ UNCHANGED held

\* ---------------------------------------------------------- specifications
\* Each specification runs one component; the others stay as constructed.
WaveIdle == WaveInit /\ initialDifficulty = 1

ProjectileManagerIdle == ProjectileManagerInit /\ ~poolLive

ShotIdle ==
    /\ impl = "Projectile.ts"
    /\ wallClock = [run \in Runs |-> 0]
    /\ shot = [run \in Runs |-> ShotConstruct([lifetime |-> 0, onHit |-> FALSE], 0)]
    /\ shotCall = NoShotCall

LoopIdle == GameLoopInit /\ config = DEFAULT_CONFIG

DifficultyIdle == DifficultyInit /\ diffConfig = DIFFICULTY_DEFAULT_CONFIG

CollisionIdle ==
    /\ shapeA = [kind |-> "box", position |-> [x |-> 0, y |-> 0], width |-> 1, height |-> 1]
    /\ shapeB = shapeA
    /\ collCall = NoCollCall

EnemyIdle ==
    /\ movementConfig = [speed |-> 2, pattern |-> "SIDE_TO_SIDE", boundaryLeft |-> 0,
                         boundaryRight |-> MaxBound, boundaryBottom |-> MaxBound]
    /\ enemy = [position |-> [x |-> 0, y |-> 0],
                velocity |-> initializeMovement(movementConfig), direction |-> 1]
    /\ enemyCall = NoEnemyCall

MovementIdle ==
    /\ movement = [config |-> MOVEMENT_DEFAULT_CONFIG, time |-> 0]
    /\ createdPattern = "SIDE_TO_SIDE"
    /\ movementCall = NoMovementCall

ShipIdle == ShipInit /\ ship.position = [x |-> 0, y |-> 0]

ControllerIdle ==
    /\ controller = [position |-> [x |-> 0, y |-> 0], velocity |-> [x |-> 0, y |-> 0],
                     rotation |-> 0, config |-> CONTROLLER_DEFAULT_CONFIG]
    /\ controllerCall = NoControllerCall

ManagerIdle ==
    /\ managerImpl = "none"
    /\ found = Missing
    /\ storage = Missing
    /\ manager = [currentScore |-> 0]
    /\ listeners = <<>>
    /\ managerCall = NoManagerCall

StateManagerIdle == StateManagerInit

AssetLoaderIdle == AssetLoaderInit

ResourceLoaderIdle == ResourceLoaderInit

AudioManagerIdle == AudioManagerInit

PlayerIdle ==
    /\ player = [position |-> [x |-> 0, y |-> 0], velocity |-> [x |-> 0, y |-> 0],
                 lastShootTime |-> 0, shootSound |-> "Sound"]
    /\ playerClock = shootCooldown
    /\ playerCall = NoPlayerCall

ProjectileSystemIdle == ProjectileSystemInit

KeyboardControlsIdle == KeyboardControlsInit

InitLoop ==
    /\ GameLoopInit
    /\ WaveIdle /\ ProjectileManagerIdle /\ ShotIdle /\ DifficultyIdle
    /\ CollisionIdle /\ EnemyIdle /\ MovementIdle /\ ShipIdle
    /\ ControllerIdle
    /\ ManagerIdle
    /\ StateManagerIdle
    /\ AssetLoaderIdle
    /\ ResourceLoaderIdle
    /\ AudioManagerIdle
    /\ PlayerIdle
    /\ ProjectileSystemIdle
    /\ KeyboardControlsIdle

NextLoop ==
    \/ SetUpdateCallback /\ UNCHANGED <<waveVars, pmVars, shotVars, diffVars, collVars, enemyVars, movementVars, shipVars, controllerVars, managerVars, smVars, assetVars, resourceVars, audioVars, playerVars, psVars, keyboardVars>>
    \/ SetRenderCallback /\ UNCHANGED <<waveVars, pmVars, shotVars, diffVars, collVars, enemyVars, movementVars, shipVars, controllerVars, managerVars, smVars, assetVars, resourceVars, audioVars, playerVars, psVars, keyboardVars>>
    \/ \E now \in Times : Start(now) /\ UNCHANGED <<waveVars, pmVars, shotVars, diffVars, collVars, enemyVars, movementVars, shipVars, controllerVars, managerVars, smVars, assetVars, resourceVars, audioVars, playerVars, psVars, keyboardVars>>
    \/ Stop /\ UNCHANGED <<waveVars, pmVars, shotVars, diffVars, collVars, enemyVars, movementVars, shipVars, controllerVars, managerVars, smVars, assetVars, resourceVars, audioVars, playerVars, psVars, keyboardVars>>
    \/ \E currentTime \in Times, beh \in Behaviours(config) :
          Tick(currentTime, beh) /\ UNCHANGED <<waveVars, pmVars, shotVars, diffVars, collVars, enemyVars, movementVars, shipVars, controllerVars, managerVars, smVars, assetVars, resourceVars, audioVars, playerVars, psVars, keyboardVars>>

SpecLoop == InitLoop /\ [][NextLoop]_vars

InitWave ==
    /\ WaveInit
    /\ LoopIdle /\ ProjectileManagerIdle /\ ShotIdle /\ DifficultyIdle
    /\ CollisionIdle /\ EnemyIdle /\ MovementIdle /\ ShipIdle
    /\ ControllerIdle
    /\ ManagerIdle
    /\ StateManagerIdle
    /\ AssetLoaderIdle
    /\ ResourceLoaderIdle
    /\ AudioManagerIdle
    /\ PlayerIdle
    /\ ProjectileSystemIdle
    /\ KeyboardControlsIdle

NextWave ==
    \/ StartNextWave /\ UNCHANGED <<loopVars, pmVars, shotVars, diffVars, collVars, enemyVars, movementVars, shipVars, controllerVars, managerVars, smVars, assetVars, resourceVars, audioVars, playerVars, psVars, keyboardVars>>
    \/ \E deltaTime \in 0..MaxWaveDelta : WaveUpdate(deltaTime) /\ UNCHANGED <<loopVars, pmVars, shotVars, diffVars, collVars, enemyVars, movementVars, shipVars, controllerVars, managerVars, smVars, assetVars, resourceVars, audioVars, playerVars, psVars, keyboardVars>>
    \/ \E enemyId \in EnemyIds : OnEnemyDestroyed(enemyId) /\ UNCHANGED <<loopVars, pmVars, shotVars, diffVars, collVars, enemyVars, movementVars, shipVars, controllerVars, managerVars, smVars, assetVars, resourceVars, audioVars, playerVars, psVars, keyboardVars>>

SpecWave == InitWave /\ [][NextWave]_vars

InitPool ==
    /\ ProjectileManagerInit
    /\ LoopIdle /\ WaveIdle /\ ShotIdle /\ DifficultyIdle
    /\ CollisionIdle /\ EnemyIdle /\ MovementIdle /\ ShipIdle
    /\ ControllerIdle
    /\ ManagerIdle
    /\ StateManagerIdle
    /\ AssetLoaderIdle
    /\ ResourceLoaderIdle
    /\ AudioManagerIdle
    /\ PlayerIdle
    /\ ProjectileSystemIdle
    /\ KeyboardControlsIdle

NextPool ==
    \/ \E direction \in Directions : SpawnProjectile(direction) /\ UNCHANGED <<loopVars, waveVars, shotVars, diffVars, collVars, enemyVars, movementVars, shipVars, controllerVars, managerVars, smVars, assetVars, resourceVars, audioVars, playerVars, psVars, keyboardVars>>
    \/ \E deltaTime \in 0..MaxProjDelta, hits \in SUBSET poolActive :
          PmUpdate(deltaTime, hits) /\ UNCHANGED <<loopVars, waveVars, shotVars, diffVars, collVars, enemyVars, movementVars, shipVars, controllerVars, managerVars, smVars, assetVars, resourceVars, audioVars, playerVars, psVars, keyboardVars>>
    \/ PmReset /\ UNCHANGED <<loopVars, waveVars, shotVars, diffVars, collVars, enemyVars, movementVars, shipVars, controllerVars, managerVars, smVars, assetVars, resourceVars, audioVars, playerVars, psVars, keyboardVars>>
    \/ CleanupProjectiles /\ UNCHANGED <<loopVars, waveVars, shotVars, diffVars, collVars, enemyVars, movementVars, shipVars, controllerVars, managerVars, smVars, assetVars, resourceVars, audioVars, playerVars, psVars, keyboardVars>>
    \/ \E lifetime \in 1..MaxLifetime :
          PmUpdateConfig(lifetime) /\ UNCHANGED <<loopVars, waveVars, shotVars, diffVars, collVars, enemyVars, movementVars, shipVars, controllerVars, managerVars, smVars, assetVars, resourceVars, audioVars, playerVars, psVars, keyboardVars>>

SpecPool == InitPool /\ [][NextPool]_vars

InitShot ==
    /\ ShotInit
    /\ LoopIdle /\ WaveIdle /\ ProjectileManagerIdle /\ DifficultyIdle
    /\ CollisionIdle /\ EnemyIdle /\ MovementIdle /\ ShipIdle
    /\ ControllerIdle
    /\ ManagerIdle
    /\ StateManagerIdle
    /\ AssetLoaderIdle
    /\ ResourceLoaderIdle
    /\ AudioManagerIdle
    /\ PlayerIdle
    /\ ProjectileSystemIdle
    /\ KeyboardControlsIdle

NextShot ==
    \/ \E run \in Runs, d \in 1..MaxClock :
          ClockAdvance(run, d) /\ UNCHANGED <<loopVars, waveVars, pmVars, diffVars, collVars, enemyVars, movementVars, shipVars, controllerVars, managerVars, smVars, assetVars, resourceVars, audioVars, playerVars, psVars, keyboardVars>>
    \/ \E lifetime \in 0..MaxShotLifetime, onHit \in BOOLEAN :
          NewShot(lifetime, onHit) /\ UNCHANGED <<loopVars, waveVars, pmVars, diffVars, collVars, enemyVars, movementVars, shipVars, controllerVars, managerVars, smVars, assetVars, resourceVars, audioVars, playerVars, psVars, keyboardVars>>
    \/ \E deltaTime \in 0..MaxProjDelta :
          ShotUpdateStep(deltaTime) /\ UNCHANGED <<loopVars, waveVars, pmVars, diffVars, collVars, enemyVars, movementVars, shipVars, controllerVars, managerVars, smVars, assetVars, resourceVars, audioVars, playerVars, psVars, keyboardVars>>
    \/ \E onHitThrows \in BOOLEAN :
          ShotCollisionStep(onHitThrows) /\ UNCHANGED <<loopVars, waveVars, pmVars, diffVars, collVars, enemyVars, movementVars, shipVars, controllerVars, managerVars, smVars, assetVars, resourceVars, audioVars, playerVars, psVars, keyboardVars>>
    \/ \E lifetime \in 0..MaxShotLifetime :
          NewEnemyShot(lifetime) /\ UNCHANGED <<loopVars, waveVars, pmVars, diffVars, collVars, enemyVars, movementVars, shipVars, controllerVars, managerVars, smVars, assetVars, resourceVars, audioVars, playerVars, psVars, keyboardVars>>
    \/ \E deltaTime \in 0..MaxProjDelta :
          EnemyShotUpdateStep(deltaTime) /\ UNCHANGED <<loopVars, waveVars, pmVars, diffVars, collVars, enemyVars, movementVars, shipVars, controllerVars, managerVars, smVars, assetVars, resourceVars, audioVars, playerVars, psVars, keyboardVars>>
    \/ \E hasTakeDamage \in BOOLEAN, takeDamageThrows \in BOOLEAN :
          EnemyShotCollisionStep(hasTakeDamage, takeDamageThrows)
          /\ UNCHANGED <<loopVars, waveVars, pmVars, diffVars, collVars, enemyVars, movementVars, shipVars, controllerVars, managerVars, smVars, assetVars, resourceVars, audioVars, playerVars, psVars, keyboardVars>>
    \/ EnemyShotDestroyStep
          /\ UNCHANGED <<loopVars, waveVars, pmVars, diffVars, collVars, enemyVars, movementVars, shipVars, controllerVars, managerVars, smVars, assetVars, resourceVars, audioVars, playerVars, psVars, keyboardVars>>

SpecShot == InitShot /\ [][NextShot]_vars

InitDifficulty ==
    /\ DifficultyInit
    /\ LoopIdle /\ WaveIdle /\ ProjectileManagerIdle /\ ShotIdle
    /\ CollisionIdle /\ EnemyIdle /\ MovementIdle /\ ShipIdle
    /\ ControllerIdle
    /\ ManagerIdle
    /\ StateManagerIdle
    /\ AssetLoaderIdle
    /\ ResourceLoaderIdle
    /\ AudioManagerIdle
    /\ PlayerIdle
    /\ ProjectileSystemIdle
    /\ KeyboardControlsIdle

NextDifficulty ==
    \/ \E d \in 1..MaxDiffClock :
          DiffClockAdvance(d) /\ UNCHANGED <<loopVars, waveVars, pmVars, shotVars, collVars, enemyVars, movementVars, shipVars, controllerVars, managerVars, smVars, assetVars, resourceVars, audioVars, playerVars, psVars, keyboardVars>>
    \/ DiffSubscribe /\ UNCHANGED <<loopVars, waveVars, pmVars, shotVars, collVars, enemyVars, movementVars, shipVars, controllerVars, managerVars, smVars, assetVars, resourceVars, audioVars, playerVars, psVars, keyboardVars>>
    \/ \E deltaTime \in 0..MaxDiffDelta, callbackThrows \in BOOLEAN :
          DiffUpdate(deltaTime, callbackThrows)
          /\ UNCHANGED <<loopVars, waveVars, pmVars, shotVars, collVars, enemyVars, movementVars, shipVars, controllerVars, managerVars, smVars, assetVars, resourceVars, audioVars, playerVars, psVars, keyboardVars>>
    \/ \E callbackThrows \in BOOLEAN :
          DiffReset(callbackThrows) /\ UNCHANGED <<loopVars, waveVars, pmVars, shotVars, collVars, enemyVars, movementVars, shipVars, controllerVars, managerVars, smVars, assetVars, resourceVars, audioVars, playerVars, psVars, keyboardVars>>

SpecDifficulty == InitDifficulty /\ [][NextDifficulty]_vars
InitCollision ==
    /\ CollisionInit
    /\ LoopIdle /\ WaveIdle /\ ProjectileManagerIdle /\ ShotIdle
    /\ DifficultyIdle /\ EnemyIdle /\ MovementIdle /\ ShipIdle
    /\ ControllerIdle
    /\ ManagerIdle
    /\ StateManagerIdle
    /\ AssetLoaderIdle
    /\ ResourceLoaderIdle
    /\ AudioManagerIdle
    /\ PlayerIdle
    /\ ProjectileSystemIdle
    /\ KeyboardControlsIdle

NextCollision ==
    \/ CheckAABB /\ UNCHANGED <<loopVars, waveVars, pmVars, shotVars, diffVars, enemyVars, movementVars, shipVars, controllerVars, managerVars, smVars, assetVars, resourceVars, audioVars, playerVars, psVars, keyboardVars>>
    \/ CheckCircle /\ UNCHANGED <<loopVars, waveVars, pmVars, shotVars, diffVars, enemyVars, movementVars, shipVars, controllerVars, managerVars, smVars, assetVars, resourceVars, audioVars, playerVars, psVars, keyboardVars>>
    \/ CheckColliders /\ UNCHANGED <<loopVars, waveVars, pmVars, shotVars, diffVars, enemyVars, movementVars, shipVars, controllerVars, managerVars, smVars, assetVars, resourceVars, audioVars, playerVars, psVars, keyboardVars>>

SpecCollision == InitCollision /\ [][NextCollision]_vars
InitEnemy ==
    /\ EnemyInit
    /\ LoopIdle /\ WaveIdle /\ ProjectileManagerIdle /\ ShotIdle
    /\ DifficultyIdle /\ CollisionIdle /\ MovementIdle /\ ShipIdle
    /\ ControllerIdle
    /\ ManagerIdle
    /\ StateManagerIdle
    /\ AssetLoaderIdle
    /\ ResourceLoaderIdle
    /\ AudioManagerIdle
    /\ PlayerIdle
    /\ ProjectileSystemIdle
    /\ KeyboardControlsIdle

NextEnemy ==
    \/ \E deltaTime \in (-1)..MaxEnemyDelta :
          EnemyUpdate(deltaTime)
          /\ UNCHANGED <<loopVars, waveVars, pmVars, shotVars, diffVars, collVars, movementVars, shipVars, controllerVars, managerVars, smVars, assetVars, resourceVars, audioVars, playerVars, psVars, keyboardVars>>
    \/ \E position \in EnemyPositions :
          EnemySetPosition(position)
          /\ UNCHANGED <<loopVars, waveVars, pmVars, shotVars, diffVars, collVars, movementVars, shipVars, controllerVars, managerVars, smVars, assetVars, resourceVars, audioVars, playerVars, psVars, keyboardVars>>

SpecEnemy == InitEnemy /\ [][NextEnemy]_vars
InitMovement ==
    /\ MovementInit
    /\ LoopIdle /\ WaveIdle /\ ProjectileManagerIdle /\ ShotIdle
    /\ DifficultyIdle /\ CollisionIdle /\ EnemyIdle /\ ShipIdle
    /\ ControllerIdle
    /\ ManagerIdle
    /\ StateManagerIdle
    /\ AssetLoaderIdle
    /\ ResourceLoaderIdle
    /\ AudioManagerIdle
    /\ PlayerIdle
    /\ ProjectileSystemIdle
    /\ KeyboardControlsIdle

NextMovement ==
    \/ \E currentPosition \in Positions, deltaTime \in 0..MaxMovementTime :
          UpdatePosition(currentPosition, deltaTime)
          /\ UNCHANGED <<loopVars, waveVars, pmVars, shotVars, diffVars, collVars, enemyVars, shipVars, controllerVars, managerVars, smVars, assetVars, resourceVars, audioVars, playerVars, psVars, keyboardVars>>
    \/ \E newConfig \in PartialMovementConfigs :
          UpdateConfig(newConfig)
          /\ UNCHANGED <<loopVars, waveVars, pmVars, shotVars, diffVars, collVars, enemyVars, shipVars, controllerVars, managerVars, smVars, assetVars, resourceVars, audioVars, playerVars, psVars, keyboardVars>>
    \/ MovementReset
          /\ UNCHANGED <<loopVars, waveVars, pmVars, shotVars, diffVars, collVars, enemyVars, shipVars, controllerVars, managerVars, smVars, assetVars, resourceVars, audioVars, playerVars, psVars, keyboardVars>>

SpecMovement == InitMovement /\ [][NextMovement]_vars
InitShip ==
    /\ ShipInit
    /\ LoopIdle /\ WaveIdle /\ ProjectileManagerIdle /\ ShotIdle
    /\ DifficultyIdle /\ CollisionIdle /\ EnemyIdle /\ MovementIdle
    /\ ControllerIdle
    /\ ManagerIdle
    /\ StateManagerIdle
    /\ AssetLoaderIdle
    /\ ResourceLoaderIdle
    /\ AudioManagerIdle
    /\ PlayerIdle
    /\ ProjectileSystemIdle
    /\ KeyboardControlsIdle

NextShip ==
    \/ \E deltaTime \in (-1)..MaxShipDelta :
          ShipUpdate(deltaTime)
          /\ UNCHANGED <<loopVars, waveVars, pmVars, shotVars, diffVars, collVars, enemyVars, movementVars, controllerVars, managerVars, smVars, assetVars, resourceVars, audioVars, playerVars, psVars, keyboardVars>>
    \/ \E thrust \in ((-1)..MaxThrust) \cup {FULL_THRUST + 1} :
          ApplyThrust(thrust)
          /\ UNCHANGED <<loopVars, waveVars, pmVars, shotVars, diffVars, collVars, enemyVars, movementVars, controllerVars, managerVars, smVars, assetVars, resourceVars, audioVars, playerVars, psVars, keyboardVars>>
    \/ \E direction \in {QUARTER_TURN} :
          Rotate(direction)
          /\ UNCHANGED <<loopVars, waveVars, pmVars, shotVars, diffVars, collVars, enemyVars, movementVars, controllerVars, managerVars, smVars, assetVars, resourceVars, audioVars, playerVars, psVars, keyboardVars>>
    \/ \E newBounds \in ShipBounds :
          UpdateBounds(newBounds)
          /\ UNCHANGED <<loopVars, waveVars, pmVars, shotVars, diffVars, collVars, enemyVars, movementVars, controllerVars, managerVars, smVars, assetVars, resourceVars, audioVars, playerVars, psVars, keyboardVars>>

SpecShip == InitShip /\ [][NextShip]_vars

\* The ship is given full thrusts and quarter turns and nothing else: a full
\* thrust is explored from velocities that are whole numbers of full thrusts,
\* so up to MAX_SPEED, which is 20 of them, and one clamp beyond.
NextThrust ==
    \/ \E thrust \in {FULL_THRUST} :
          /\ ship.velocity.dx % (MOVEMENT_CONFIG.ACCELERATION * FULL_THRUST) = 0
          /\ ship.velocity.dy % (MOVEMENT_CONFIG.ACCELERATION * FULL_THRUST) = 0
          /\ ApplyThrust(thrust)
          /\ UNCHANGED <<loopVars, waveVars, pmVars, shotVars, diffVars, collVars, enemyVars, movementVars, controllerVars, managerVars, smVars, assetVars, resourceVars, audioVars, playerVars, psVars, keyboardVars>>
    \/ \E direction \in {QUARTER_TURN} :
          Rotate(direction)
          /\ UNCHANGED <<loopVars, waveVars, pmVars, shotVars, diffVars, collVars, enemyVars, movementVars, controllerVars, managerVars, smVars, assetVars, resourceVars, audioVars, playerVars, psVars, keyboardVars>>

SpecThrust == InitShip /\ [][NextThrust]_vars

InitController ==
    /\ ControllerInit
    /\ LoopIdle /\ WaveIdle /\ ProjectileManagerIdle /\ ShotIdle
    /\ DifficultyIdle /\ CollisionIdle /\ EnemyIdle /\ MovementIdle
    /\ ShipIdle
    /\ ManagerIdle
    /\ StateManagerIdle
    /\ AssetLoaderIdle
    /\ ResourceLoaderIdle
    /\ AudioManagerIdle
    /\ PlayerIdle
    /\ ProjectileSystemIdle
    /\ KeyboardControlsIdle

NextController ==
    \/ \E x \in InputAxis, y \in InputAxis, deltaTime \in 0..MaxControllerDelta :
          ControllerUpdate([x |-> x, y |-> y], deltaTime)
          /\ UNCHANGED <<loopVars, waveVars, pmVars, shotVars, diffVars, collVars, enemyVars, movementVars, shipVars, managerVars, smVars, assetVars, resourceVars, audioVars, playerVars, psVars, keyboardVars>>
    \/ \E position \in {[given |-> FALSE], [given |-> TRUE, x |-> 0, y |-> 0]} :
          ControllerReset(position)
          /\ UNCHANGED <<loopVars, waveVars, pmVars, shotVars, diffVars, collVars, enemyVars, movementVars, shipVars, managerVars, smVars, assetVars, resourceVars, audioVars, playerVars, psVars, keyboardVars>>

SpecController == InitController /\ [][NextController]_vars

\* The ship is turned left and right and nothing else is done with it.
NextRotation ==
    \/ \E direction \in {LEFT, RIGHT} :
          Rotate(direction)
          /\ UNCHANGED <<loopVars, waveVars, pmVars, shotVars, diffVars, collVars, enemyVars, movementVars, controllerVars, managerVars, smVars, assetVars, resourceVars, audioVars, playerVars, psVars, keyboardVars>>

SpecRotation == InitShip /\ [][NextRotation]_vars

InitScoreList ==
    /\ ScoreListInit
    /\ LoopIdle /\ WaveIdle /\ ProjectileManagerIdle /\ ShotIdle
    /\ DifficultyIdle /\ CollisionIdle /\ EnemyIdle /\ MovementIdle
    /\ ShipIdle
    /\ ControllerIdle
    /\ StateManagerIdle
    /\ AssetLoaderIdle
    /\ ResourceLoaderIdle
    /\ AudioManagerIdle
    /\ PlayerIdle
    /\ ProjectileSystemIdle
    /\ KeyboardControlsIdle

NextScoreList ==
    \/ \E points \in (-1)..MaxScore :
          ListAddPoints(points)
          /\ UNCHANGED <<loopVars, waveVars, pmVars, shotVars, diffVars, collVars, enemyVars, movementVars, shipVars, controllerVars, smVars, assetVars, resourceVars, audioVars, playerVars, psVars, keyboardVars>>
    \/ ListResetScore
          /\ UNCHANGED <<loopVars, waveVars, pmVars, shotVars, diffVars, collVars, enemyVars, movementVars, shipVars, controllerVars, smVars, assetVars, resourceVars, audioVars, playerVars, psVars, keyboardVars>>
    \/ \E playerName \in {"", "A"} :
          SubmitHighScore(playerName)
          /\ UNCHANGED <<loopVars, waveVars, pmVars, shotVars, diffVars, collVars, enemyVars, movementVars, shipVars, controllerVars, smVars, assetVars, resourceVars, audioVars, playerVars, psVars, keyboardVars>>
    \/ ClearHighScores
          /\ UNCHANGED <<loopVars, waveVars, pmVars, shotVars, diffVars, collVars, enemyVars, movementVars, shipVars, controllerVars, smVars, assetVars, resourceVars, audioVars, playerVars, psVars, keyboardVars>>

SpecScoreList == InitScoreList /\ [][NextScoreList]_vars

InitScore ==
    /\ SingletonInit \/ EventsInit \/ DisplayInit \/ InputInit
    /\ LoopIdle /\ WaveIdle /\ ProjectileManagerIdle /\ ShotIdle
    /\ DifficultyIdle /\ CollisionIdle /\ EnemyIdle /\ MovementIdle
    /\ ShipIdle
    /\ ControllerIdle
    /\ StateManagerIdle
    /\ AssetLoaderIdle
    /\ ResourceLoaderIdle
    /\ AudioManagerIdle
    /\ PlayerIdle
    /\ ProjectileSystemIdle
    /\ KeyboardControlsIdle

NextScore ==
    \/ \E event \in SCORE_EVENTS \cup {"any"}, behaviour \in ListenerBehaviours :
          AddListener(event, behaviour)
          /\ UNCHANGED <<loopVars, waveVars, pmVars, shotVars, diffVars, collVars, enemyVars, movementVars, shipVars, controllerVars, smVars, assetVars, resourceVars, audioVars, playerVars, psVars, keyboardVars>>
    \/ \E event \in SCORE_EVENTS \cup {"any"}, behaviour \in ListenerBehaviours :
          RemoveListener(event, behaviour)
          /\ UNCHANGED <<loopVars, waveVars, pmVars, shotVars, diffVars, collVars, enemyVars, movementVars, shipVars, controllerVars, smVars, assetVars, resourceVars, audioVars, playerVars, psVars, keyboardVars>>
    \/ \E points \in (-1)..MaxScore :
          SingletonAddPoints(points)
          /\ UNCHANGED <<loopVars, waveVars, pmVars, shotVars, diffVars, collVars, enemyVars, movementVars, shipVars, controllerVars, smVars, assetVars, resourceVars, audioVars, playerVars, psVars, keyboardVars>>
    \/ \E multiplier \in 0..MaxScore :
          SetMultiplier(multiplier)
          /\ UNCHANGED <<loopVars, waveVars, pmVars, shotVars, diffVars, collVars, enemyVars, movementVars, shipVars, controllerVars, smVars, assetVars, resourceVars, audioVars, playerVars, psVars, keyboardVars>>
    \/ SingletonResetScore
          /\ UNCHANGED <<loopVars, waveVars, pmVars, shotVars, diffVars, collVars, enemyVars, movementVars, shipVars, controllerVars, smVars, assetVars, resourceVars, audioVars, playerVars, psVars, keyboardVars>>
    \/ \E points \in (-1)..MaxScore, isNumber \in BOOLEAN :
          EventsAddPoints(points, isNumber)
          /\ UNCHANGED <<loopVars, waveVars, pmVars, shotVars, diffVars, collVars, enemyVars, movementVars, shipVars, controllerVars, smVars, assetVars, resourceVars, audioVars, playerVars, psVars, keyboardVars>>
    \/ \E points \in (-1)..MaxScore, isNumber \in BOOLEAN :
          SubtractPoints(points, isNumber)
          /\ UNCHANGED <<loopVars, waveVars, pmVars, shotVars, diffVars, collVars, enemyVars, movementVars, shipVars, controllerVars, smVars, assetVars, resourceVars, audioVars, playerVars, psVars, keyboardVars>>
    \/ EventsResetScore
          /\ UNCHANGED <<loopVars, waveVars, pmVars, shotVars, diffVars, collVars, enemyVars, movementVars, shipVars, controllerVars, smVars, assetVars, resourceVars, audioVars, playerVars, psVars, keyboardVars>>
    \/ \E newScore \in (-1)..(MaxScore + 1) :
          UpdateScore(newScore)
          /\ UNCHANGED <<loopVars, waveVars, pmVars, shotVars, diffVars, collVars, enemyVars, movementVars, shipVars, controllerVars, smVars, assetVars, resourceVars, audioVars, playerVars, psVars, keyboardVars>>
    \/ \E amount \in 1..MaxScore :
          Increment(amount)
          /\ UNCHANGED <<loopVars, waveVars, pmVars, shotVars, diffVars, collVars, enemyVars, movementVars, shipVars, controllerVars, smVars, assetVars, resourceVars, audioVars, playerVars, psVars, keyboardVars>>
    \/ \E amount \in 1..MaxScore :
          Decrement(amount)
          /\ UNCHANGED <<loopVars, waveVars, pmVars, shotVars, diffVars, collVars, enemyVars, movementVars, shipVars, controllerVars, smVars, assetVars, resourceVars, audioVars, playerVars, psVars, keyboardVars>>
    \/ Destroy
          /\ UNCHANGED <<loopVars, waveVars, pmVars, shotVars, diffVars, collVars, enemyVars, movementVars, shipVars, controllerVars, smVars, assetVars, resourceVars, audioVars, playerVars, psVars, keyboardVars>>
    \/ \E type \in {"keydown", "keyup"}, key \in Keys :
          HandleKey(type, key)
          /\ UNCHANGED <<loopVars, waveVars, pmVars, shotVars, diffVars, collVars, enemyVars, movementVars, shipVars, controllerVars, smVars, assetVars, resourceVars, audioVars, playerVars, psVars, keyboardVars>>
    \/ \E type \in {"touchstart", "touchend"}, touch \in Touches :
          HandleTouch(type, touch)
          /\ UNCHANGED <<loopVars, waveVars, pmVars, shotVars, diffVars, collVars, enemyVars, movementVars, shipVars, controllerVars, smVars, assetVars, resourceVars, audioVars, playerVars, psVars, keyboardVars>>
    \/ \E isEnabled \in BOOLEAN :
          SetEnabled(isEnabled)
          /\ UNCHANGED <<loopVars, waveVars, pmVars, shotVars, diffVars, collVars, enemyVars, movementVars, shipVars, controllerVars, smVars, assetVars, resourceVars, audioVars, playerVars, psVars, keyboardVars>>
    \/ Cleanup
          /\ UNCHANGED <<loopVars, waveVars, pmVars, shotVars, diffVars, collVars, enemyVars, movementVars, shipVars, controllerVars, smVars, assetVars, resourceVars, audioVars, playerVars, psVars, keyboardVars>>

SpecScore == InitScore /\ [][NextScore]_vars

InitStateManager ==
    /\ StateManagerInit
    /\ LoopIdle /\ WaveIdle /\ ProjectileManagerIdle /\ ShotIdle
    /\ DifficultyIdle /\ CollisionIdle /\ EnemyIdle /\ MovementIdle
    /\ ShipIdle
    /\ ControllerIdle
    /\ ManagerIdle
    /\ AssetLoaderIdle
    /\ ResourceLoaderIdle
    /\ AudioManagerIdle
    /\ PlayerIdle
    /\ ProjectileSystemIdle
    /\ KeyboardControlsIdle

NextStateManager ==
    \/ \E stateName \in StateNames, valid \in BOOLEAN :
          RegisterState(stateName, valid)
          /\ UNCHANGED <<loopVars, waveVars, pmVars, shotVars, diffVars, collVars, enemyVars, movementVars, shipVars, controllerVars, managerVars, assetVars, resourceVars, audioVars, playerVars, psVars, keyboardVars>>
    \/ \E newStateName \in StateNames :
          ChangeState(newStateName)
          /\ UNCHANGED <<loopVars, waveVars, pmVars, shotVars, diffVars, collVars, enemyVars, movementVars, shipVars, controllerVars, managerVars, assetVars, resourceVars, audioVars, playerVars, psVars, keyboardVars>>
    \/ \E i \in 1..MaxTransitions, resolved \in BOOLEAN :
          ExitSettles(i, resolved)
          /\ UNCHANGED <<loopVars, waveVars, pmVars, shotVars, diffVars, collVars, enemyVars, movementVars, shipVars, controllerVars, managerVars, assetVars, resourceVars, audioVars, playerVars, psVars, keyboardVars>>
    \/ \E i \in 1..MaxTransitions, resolved \in BOOLEAN :
          EnterSettles(i, resolved)
          /\ UNCHANGED <<loopVars, waveVars, pmVars, shotVars, diffVars, collVars, enemyVars, movementVars, shipVars, controllerVars, managerVars, assetVars, resourceVars, audioVars, playerVars, psVars, keyboardVars>>
    \/ \E throws \in BOOLEAN :
          StateUpdate(throws)
          /\ UNCHANGED <<loopVars, waveVars, pmVars, shotVars, diffVars, collVars, enemyVars, movementVars, shipVars, controllerVars, managerVars, assetVars, resourceVars, audioVars, playerVars, psVars, keyboardVars>>
    \/ StateClear
          /\ UNCHANGED <<loopVars, waveVars, pmVars, shotVars, diffVars, collVars, enemyVars, movementVars, shipVars, controllerVars, managerVars, assetVars, resourceVars, audioVars, playerVars, psVars, keyboardVars>>

SpecStateManager == InitStateManager /\ [][NextStateManager]_vars

InitAssetLoader ==
    /\ AssetLoaderInit
    /\ LoopIdle /\ WaveIdle /\ ProjectileManagerIdle /\ ShotIdle
    /\ DifficultyIdle /\ CollisionIdle /\ EnemyIdle /\ MovementIdle
    /\ ShipIdle
    /\ ControllerIdle
    /\ ManagerIdle
    /\ StateManagerIdle
    /\ ResourceLoaderIdle
    /\ AudioManagerIdle
    /\ PlayerIdle
    /\ ProjectileSystemIdle
    /\ KeyboardControlsIdle

NextAssetLoader ==
    \/ \E url \in Urls, type \in LoadTypes :
          LoadAsset(url, type)
          /\ UNCHANGED <<loopVars, waveVars, pmVars, shotVars, diffVars, collVars, enemyVars, movementVars, shipVars, controllerVars, managerVars, smVars, resourceVars, audioVars, playerVars, psVars, keyboardVars>>
    \/ \E p \in 1..MaxLoads, ok \in BOOLEAN :
          LoaderSettles(p, ok)
          /\ UNCHANGED <<loopVars, waveVars, pmVars, shotVars, diffVars, collVars, enemyVars, movementVars, shipVars, controllerVars, managerVars, smVars, resourceVars, audioVars, playerVars, psVars, keyboardVars>>
    \/ \E p \in 1..MaxLoads :
          RetryTimer(p)
          /\ UNCHANGED <<loopVars, waveVars, pmVars, shotVars, diffVars, collVars, enemyVars, movementVars, shipVars, controllerVars, managerVars, smVars, resourceVars, audioVars, playerVars, psVars, keyboardVars>>
    \/ \E i \in 1..MaxCallers :
          CallerSettles(i)
          /\ UNCHANGED <<loopVars, waveVars, pmVars, shotVars, diffVars, collVars, enemyVars, movementVars, shipVars, controllerVars, managerVars, smVars, resourceVars, audioVars, playerVars, psVars, keyboardVars>>
    \/ \E behaviour \in HandlerBehaviours :
          AddErrorHandler(behaviour)
          /\ UNCHANGED <<loopVars, waveVars, pmVars, shotVars, diffVars, collVars, enemyVars, movementVars, shipVars, controllerVars, managerVars, smVars, resourceVars, audioVars, playerVars, psVars, keyboardVars>>
    \/ ClearCache
          /\ UNCHANGED <<loopVars, waveVars, pmVars, shotVars, diffVars, collVars, enemyVars, movementVars, shipVars, controllerVars, managerVars, smVars, resourceVars, audioVars, playerVars, psVars, keyboardVars>>
    \/ \E id \in Urls :
          RemoveFromCache(id)
          /\ UNCHANGED <<loopVars, waveVars, pmVars, shotVars, diffVars, collVars, enemyVars, movementVars, shipVars, controllerVars, managerVars, smVars, resourceVars, audioVars, playerVars, psVars, keyboardVars>>

SpecAssetLoader == InitAssetLoader /\ [][NextAssetLoader]_vars

InitResourceLoader ==
    /\ ResourceLoaderInit
    /\ LoopIdle
    /\ WaveIdle
    /\ ProjectileManagerIdle
    /\ ShotIdle
    /\ DifficultyIdle
    /\ CollisionIdle
    /\ EnemyIdle
    /\ MovementIdle
    /\ ShipIdle
    /\ ControllerIdle
    /\ ManagerIdle
    /\ StateManagerIdle
    /\ AssetLoaderIdle
    /\ AudioManagerIdle
    /\ PlayerIdle
    /\ ProjectileSystemIdle
    /\ KeyboardControlsIdle

NextResourceLoader ==
    \/ ResourceClockAdvance
          /\ UNCHANGED <<loopVars, waveVars, pmVars, shotVars, diffVars, collVars, enemyVars, movementVars, shipVars, controllerVars, managerVars, smVars, assetVars, audioVars, playerVars, psVars, keyboardVars>>
    \/ \E url \in ResourceUrls, forceReload \in BOOLEAN :
          ResourceLoadAsset(url, forceReload)
          /\ UNCHANGED <<loopVars, waveVars, pmVars, shotVars, diffVars, collVars, enemyVars, movementVars, shipVars, controllerVars, managerVars, smVars, assetVars, audioVars, playerVars, psVars, keyboardVars>>
    \/ \E url \in ResourceUrls, ok \in BOOLEAN :
          FetchSettles(url, ok)
          /\ UNCHANGED <<loopVars, waveVars, pmVars, shotVars, diffVars, collVars, enemyVars, movementVars, shipVars, controllerVars, managerVars, smVars, assetVars, audioVars, playerVars, psVars, keyboardVars>>
    \/ \E url \in ResourceUrls, ok \in BOOLEAN, now \in 0..MaxResourceClock :
          BlobSettles(url, ok, now)
          /\ UNCHANGED <<loopVars, waveVars, pmVars, shotVars, diffVars, collVars, enemyVars, movementVars, shipVars, controllerVars, managerVars, smVars, assetVars, audioVars, playerVars, psVars, keyboardVars>>
    \/ \E url \in ResourceUrls :
          LoadAssetResumes(url)
          /\ UNCHANGED <<loopVars, waveVars, pmVars, shotVars, diffVars, collVars, enemyVars, movementVars, shipVars, controllerVars, managerVars, smVars, assetVars, audioVars, playerVars, psVars, keyboardVars>>
    \/ ResourceClearCache
          /\ UNCHANGED <<loopVars, waveVars, pmVars, shotVars, diffVars, collVars, enemyVars, movementVars, shipVars, controllerVars, managerVars, smVars, assetVars, audioVars, playerVars, psVars, keyboardVars>>
    \/ \E url \in ResourceUrls :
          ResourceRemoveFromCache(url)
          /\ UNCHANGED <<loopVars, waveVars, pmVars, shotVars, diffVars, collVars, enemyVars, movementVars, shipVars, controllerVars, managerVars, smVars, assetVars, audioVars, playerVars, psVars, keyboardVars>>

SpecResourceLoader == InitResourceLoader /\ [][NextResourceLoader]_vars

InitAudioManager ==
    /\ AudioManagerInit
    /\ LoopIdle
    /\ WaveIdle
    /\ ProjectileManagerIdle
    /\ ShotIdle
    /\ DifficultyIdle
    /\ CollisionIdle
    /\ EnemyIdle
    /\ MovementIdle
    /\ ShipIdle
    /\ ControllerIdle
    /\ ManagerIdle
    /\ StateManagerIdle
    /\ AssetLoaderIdle
    /\ ResourceLoaderIdle
    /\ PlayerIdle
    /\ ProjectileSystemIdle
    /\ KeyboardControlsIdle

NextAudioManager ==
    \/ \E id \in TrackIds, hasVolume \in BOOLEAN, volume \in {MIN_VOLUME, MAX_VOLUME} :
          LoadMusic(id, hasVolume, volume)
          /\ UNCHANGED <<loopVars, waveVars, pmVars, shotVars, diffVars, collVars, enemyVars, movementVars, shipVars, controllerVars, managerVars, smVars, assetVars, resourceVars, playerVars, psVars, keyboardVars>>
    \/ \E h \in 1..MaxHowls :
          MusicLoaded(h)
          /\ UNCHANGED <<loopVars, waveVars, pmVars, shotVars, diffVars, collVars, enemyVars, movementVars, shipVars, controllerVars, managerVars, smVars, assetVars, resourceVars, playerVars, psVars, keyboardVars>>
    \/ \E h \in 1..MaxHowls :
          MusicLoadError(h)
          /\ UNCHANGED <<loopVars, waveVars, pmVars, shotVars, diffVars, collVars, enemyVars, movementVars, shipVars, controllerVars, managerVars, smVars, assetVars, resourceVars, playerVars, psVars, keyboardVars>>
    \/ \E trackId \in TrackIds :
          PlayMusic(trackId)
          /\ UNCHANGED <<loopVars, waveVars, pmVars, shotVars, diffVars, collVars, enemyVars, movementVars, shipVars, controllerVars, managerVars, smVars, assetVars, resourceVars, playerVars, psVars, keyboardVars>>
    \/ StopMusic
          /\ UNCHANGED <<loopVars, waveVars, pmVars, shotVars, diffVars, collVars, enemyVars, movementVars, shipVars, controllerVars, managerVars, smVars, assetVars, resourceVars, playerVars, psVars, keyboardVars>>
    \/ \E volume \in {MIN_VOLUME, MAX_VOLUME} :
          SetVolume(volume)
          /\ UNCHANGED <<loopVars, waveVars, pmVars, shotVars, diffVars, collVars, enemyVars, movementVars, shipVars, controllerVars, managerVars, smVars, assetVars, resourceVars, playerVars, psVars, keyboardVars>>
    \/ \E i \in 1..MaxFades :
          CrossFadeTick(i)
          /\ UNCHANGED <<loopVars, waveVars, pmVars, shotVars, diffVars, collVars, enemyVars, movementVars, shipVars, controllerVars, managerVars, smVars, assetVars, resourceVars, playerVars, psVars, keyboardVars>>
    \/ \E i \in 1..MaxFades :
          FadeOutTick(i)
          /\ UNCHANGED <<loopVars, waveVars, pmVars, shotVars, diffVars, collVars, enemyVars, movementVars, shipVars, controllerVars, managerVars, smVars, assetVars, resourceVars, playerVars, psVars, keyboardVars>>
    \/ AudioDispose
          /\ UNCHANGED <<loopVars, waveVars, pmVars, shotVars, diffVars, collVars, enemyVars, movementVars, shipVars, controllerVars, managerVars, smVars, assetVars, resourceVars, playerVars, psVars, keyboardVars>>

SpecAudioManager == InitAudioManager /\ [][NextAudioManager]_vars

InitPlayer ==
    /\ PlayerInit
    /\ LoopIdle
    /\ WaveIdle
    /\ ProjectileManagerIdle
    /\ ShotIdle
    /\ DifficultyIdle
    /\ CollisionIdle
    /\ EnemyIdle
    /\ MovementIdle
    /\ ShipIdle
    /\ ControllerIdle
    /\ ManagerIdle
    /\ StateManagerIdle
    /\ AssetLoaderIdle
    /\ ResourceLoaderIdle
    /\ AudioManagerIdle
    /\ ProjectileSystemIdle
    /\ KeyboardControlsIdle

NextPlayer ==
    \/ PlayerClockAdvance
          /\ UNCHANGED <<loopVars, waveVars, pmVars, shotVars, diffVars, collVars, enemyVars, movementVars, shipVars, controllerVars, managerVars, smVars, assetVars, resourceVars, audioVars, psVars, keyboardVars>>
    \/ Shoot
          /\ UNCHANGED <<loopVars, waveVars, pmVars, shotVars, diffVars, collVars, enemyVars, movementVars, shipVars, controllerVars, managerVars, smVars, assetVars, resourceVars, audioVars, psVars, keyboardVars>>
    \/ \E deltaTime \in {1} :
          PlayerUpdate(deltaTime)
          /\ UNCHANGED <<loopVars, waveVars, pmVars, shotVars, diffVars, collVars, enemyVars, movementVars, shipVars, controllerVars, managerVars, smVars, assetVars, resourceVars, audioVars, psVars, keyboardVars>>
    \/ \E vx \in {-1, 0, 1}, vy \in {-1, 0, 1} :
          PlayerSetVelocity([x |-> vx, y |-> vy])
          /\ UNCHANGED <<loopVars, waveVars, pmVars, shotVars, diffVars, collVars, enemyVars, movementVars, shipVars, controllerVars, managerVars, smVars, assetVars, resourceVars, audioVars, psVars, keyboardVars>>

SpecPlayer == InitPlayer /\ [][NextPlayer]_vars

InitProjectileSystem ==
    /\ ProjectileSystemInit
    /\ LoopIdle
    /\ WaveIdle
    /\ ProjectileManagerIdle
    /\ ShotIdle
    /\ DifficultyIdle
    /\ CollisionIdle
    /\ EnemyIdle
    /\ MovementIdle
    /\ ShipIdle
    /\ ControllerIdle
    /\ ManagerIdle
    /\ StateManagerIdle
    /\ AssetLoaderIdle
    /\ ResourceLoaderIdle
    /\ AudioManagerIdle
    /\ PlayerIdle
    /\ KeyboardControlsIdle

NextProjectileSystem ==
    \/ PsClockAdvance
          /\ UNCHANGED <<loopVars, waveVars, pmVars, shotVars, diffVars, collVars, enemyVars, movementVars, shipVars, controllerVars, managerVars, smVars, assetVars, resourceVars, audioVars, playerVars, keyboardVars>>
    \/ \E direction \in PsDirections, projectileConfig \in PsConfigs :
          CreateProjectile(direction, projectileConfig)
          /\ UNCHANGED <<loopVars, waveVars, pmVars, shotVars, diffVars, collVars, enemyVars, movementVars, shipVars, controllerVars, managerVars, smVars, assetVars, resourceVars, audioVars, playerVars, keyboardVars>>
    \/ PsUpdate
          /\ UNCHANGED <<loopVars, waveVars, pmVars, shotVars, diffVars, collVars, enemyVars, movementVars, shipVars, controllerVars, managerVars, smVars, assetVars, resourceVars, audioVars, playerVars, keyboardVars>>
    \/ \E projectileId \in 1..MaxProjectiles :
          RemoveProjectile(projectileId)
          /\ UNCHANGED <<loopVars, waveVars, pmVars, shotVars, diffVars, collVars, enemyVars, movementVars, shipVars, controllerVars, managerVars, smVars, assetVars, resourceVars, audioVars, playerVars, keyboardVars>>

SpecProjectileSystem == InitProjectileSystem /\ [][NextProjectileSystem]_vars

InitKeyboardControls ==
    /\ KeyboardControlsInit
    /\ LoopIdle
    /\ WaveIdle
    /\ ProjectileManagerIdle
    /\ ShotIdle
    /\ DifficultyIdle
    /\ CollisionIdle
    /\ EnemyIdle
    /\ MovementIdle
    /\ ShipIdle
    /\ ControllerIdle
    /\ ManagerIdle
    /\ StateManagerIdle
    /\ AssetLoaderIdle
    /\ ResourceLoaderIdle
    /\ AudioManagerIdle
    /\ PlayerIdle
    /\ ProjectileSystemIdle

NextKeyboardControls ==
    \/ KeyboardInitialize
          /\ UNCHANGED <<loopVars, waveVars, pmVars, shotVars, diffVars, collVars, enemyVars, movementVars, shipVars, controllerVars, managerVars, smVars, assetVars, resourceVars, audioVars, playerVars, psVars>>
    \/ KeyboardCleanup
          /\ UNCHANGED <<loopVars, waveVars, pmVars, shotVars, diffVars, collVars, enemyVars, movementVars, shipVars, controllerVars, managerVars, smVars, assetVars, resourceVars, audioVars, playerVars, psVars>>
    \/ \E code \in KeyCodes :
          KeyDown(code)
          /\ UNCHANGED <<loopVars, waveVars, pmVars, shotVars, diffVars, collVars, enemyVars, movementVars, shipVars, controllerVars, managerVars, smVars, assetVars, resourceVars, audioVars, playerVars, psVars>>
    \/ \E code \in KeyCodes :
          KeyUp(code)
          /\ UNCHANGED <<loopVars, waveVars, pmVars, shotVars, diffVars, collVars, enemyVars, movementVars, shipVars, controllerVars, managerVars, smVars, assetVars, resourceVars, audioVars, playerVars, psVars>>
    \/ \E newConfig \in PartialKeyboardConfigs :
          KeyboardUpdateConfig(newConfig)
          /\ UNCHANGED <<loopVars, waveVars, pmVars, shotVars, diffVars, collVars, enemyVars, movementVars, shipVars, controllerVars, managerVars, smVars, assetVars, resourceVars, audioVars, playerVars, psVars>>

SpecKeyboardControls == InitKeyboardControls /\ [][NextKeyboardControls]_vars

\* ------------------------------------------------------- GameLoop: claims

\* C1: every update call made by a tick is passed config.updateInterval, and a
\* tick makes at most config.maxFrameSkip update calls.
C1_FixedStepAndCap ==
    lastCall.op = "tick" =>
        /\ \A i \in 1..Len(lastCall.updates) : lastCall.updates[i] = config.updateInterval
        /\ Len(lastCall.updates) <= config.maxFrameSkip

\* A tick that stopped stepping because of the cap, with a whole interval left.
C1_Witness ==
    /\ lastCall.op = "tick"
    /\ Len(lastCall.updates) = config.maxFrameSkip
    /\ accumulator >= config.updateInterval

\* C2: whenever a tick calls render, 0 <= alpha < 1, that is
\* 0 <= accumulator < updateInterval at the render call.
C2_AlphaInUnitInterval ==
    (lastCall.op = "tick" /\ lastCall.rendered) =>
        (0 <= lastCall.alphaAcc /\ lastCall.alphaAcc < config.updateInterval)

\* C3: a tick in which a callback throws leaves the loop stopped and requests
\* no frame, render is not called when update threw, and while the loop is
\* stopped no call other than start() invokes a callback or restarts it.
C3_ThrowStopsLoop ==
    /\ [](lastCall.thrown \in {"update", "render"} =>
            /\ ~isRunning
            /\ ~lastCall.requested
            /\ (lastCall.thrown = "update" => ~lastCall.rendered))
    /\ [][(~isRunning /\ lastCall'.op # "start") =>
            (/\ ~isRunning'
             /\ lastCall'.updates = <<>>
             /\ ~lastCall'.rendered
             /\ ~lastCall'.requested)]_vars

\* The second update call of a tick threw.
C3_Witness ==
    /\ lastCall.thrown = "update"
    /\ Len(lastCall.updates) = 2

\* C4: a tick that finds the loop stopped invokes nothing and requests no
\* frame; a stop() made by a callback during a tick does not cut the tick
\* short: the steps are drained as far as the cap allows and render is called.
C4_CooperativeStop ==
    /\ (lastCall.op = "tick" /\ ~lastCall.running) =>
            (lastCall.updates = <<>> /\ ~lastCall.rendered /\ ~lastCall.requested)
    /\ (lastCall.op = "tick" /\ lastCall.stopAt # 0 /\ lastCall.thrown = "none") =>
            /\ lastCall.rendered
            /\ \/ Len(lastCall.updates) = config.maxFrameSkip
               \/ ~intervalBanked(config, accumulator, lastCall)

\* The first update call of a tick called stop(), and a second step and the
\* render call were still made.
C4_Witness ==
    /\ lastCall.op = "tick"
    /\ lastCall.stopAt = 1
    /\ Len(lastCall.updates) = 2
    /\ lastCall.rendered

\* C5: start() on a running loop requests no frame and leaves lastTime and
\* the accumulator as they were.
C5_StartWhileRunningNoOp ==
    [][(isRunning /\ updateCallback /\ renderCallback /\ lastCall'.op = "start") =>
        (/\ pendingFrames' = pendingFrames
         /\ lastTime' = lastTime
         /\ accumulator' = accumulator
         /\ isRunning')]_vars

\* start() was called on a running loop that had banked part of an interval.
C5_Witness ==
    /\ lastCall.op = "start"
    /\ lastCall.running
    /\ accumulator # 0
    /\ lastTime # 0

\* ---------------------------------------------------- WaveManager: claims

\* C10: startNextWave returns false, does not throw and makes no wave newly
\* active when a wave is already active or the next wave number has no
\* configuration; a call that moves the counter past wave 2 fails.
C10_StartNextWaveFails ==
    waveCall.op = "startNextWave" =>
        /\ (waveCall.wasActive \/ waveCall.waveBefore + 1 \notin DOMAIN waveConfigs) =>
               /\ waveCall.ret = FALSE
               /\ ~waveCall.thrown
               /\ isWaveActive = waveCall.wasActive
        /\ currentWave >= 3 => (waveCall.ret = FALSE /\ ~isWaveActive)

\* Waves 1 and 2 were consumed and a third startNextWave call was made.
C10_Witness ==
    /\ waveCall.op = "startNextWave"
    /\ waveCall.waveBefore = 2
    /\ ~waveCall.wasActive
    /\ currentWave = 3
    /\ waveCall.ret = FALSE

\* ---------------------------------------------- ProjectileManager: claims

\* C6: a spawn made when all PoolSize projectiles are acquired initialises
\* nothing, emits nothing and does not throw; a spawn made when fewer are
\* acquired (so also after a release) acquires a projectile and, given a
\* direction vector, initialises it and emits 'projectileSpawned'.
C6_PoolExhaustion ==
    pmCall.op = "spawnProjectile" =>
        IF pmCall.activeBefore = PoolSize
        THEN /\ pmCall.acquired = 0
             /\ ~pmCall.initialised
             /\ pmCall.emitted = {}
             /\ ~pmCall.thrown
             /\ Cardinality(poolActive) = PoolSize
        ELSE /\ pmCall.acquired \in poolActive
             /\ Cardinality(poolActive) = pmCall.activeBefore + 1
             /\ ~pmCall.thrown
             /\ ~pmCall.caught =>
                   /\ pmCall.initialised
                   /\ projectiles[pmCall.acquired].isActive
                   /\ pmCall.emitted = {"projectileSpawned"}

\* The spawn that follows PoolSize acquisitions with nothing released.
C6_Witness ==
    /\ pmCall.op = "spawnProjectile"
    /\ pmCall.activeBefore = PoolSize
    /\ pmCall.acquired = 0

\* C9: a spawned projectile starts with elapsed time 0 and the configured
\* lifetime; every update of it adds deltaTime to the elapsed time and,
\* collisions apart, leaves the projectile active exactly when the sum is
\* below the lifetime, so it is deactivated by the update at which the sum
\* reaches it.
C9_ExpiryAtLifetime ==
    /\ []((pmCall.op = "spawnProjectile" /\ pmCall.initialised) =>
            /\ projectiles[pmCall.acquired].elapsedTime = 0
            /\ projectiles[pmCall.acquired].lifetime = pmConfig.lifetime
            /\ projectiles[pmCall.acquired].isActive)
    /\ [][pmCall'.op = "update" =>
            \A slot \in pmCall'.updated :
                (projectiles[slot].isActive /\ slot \notin pmCall'.collided) =>
                    LET total == projectiles[slot].elapsedTime + pmCall'.deltaTime
                    IN  /\ projectiles'[slot].elapsedTime = total
                        /\ projectiles'[slot].isActive <=>
                               (total < projectiles[slot].lifetime)]_vars

\* A projectile deactivated by the update at which its elapsed time became
\* exactly its lifetime, after more than one update.
C9_Witness ==
    /\ pmCall.op = "update"
    /\ \E slot \in pmCall.expired :
          /\ projectiles[slot].elapsedTime = projectiles[slot].lifetime
          /\ pmCall.deltaTime < projectiles[slot].lifetime
          /\ pmCall.deltaTime > 0

\* ----------------------------------------- stand-alone Projectile: claims

\* C7: the hit effect (onHit, or the target's takeDamage) is applied at most
\* once to a projectile: a projectile that is still active has applied none,
\* a collision handled while it is active applies the effect once (when
\* there is one to apply) and deactivates it, and no later call adds one.
C7_HitAtMostOnce ==
    \A run \in Runs :
        /\ shot[run].hits <= 1
        /\ ShotIsActive(shot[run]) => shot[run].hits = 0
        /\ (shotCall.op = "collision" /\ shotCall.wasActive[run]) =>
               /\ ~ShotIsActive(shot[run])
               /\ shot[run].hits = IF shotCall.effect THEN 1 ELSE 0

\* A collision was handled on a projectile that an earlier collision had
\* already deactivated after applying its effect.
C7_Witness ==
    /\ shotCall.op = "collision"
    /\ shotCall.effect
    /\ ~shotCall.wasActive["A"]
    /\ shot["A"].hits = 1

\* C8: two runs that make the same calls on projectiles of the same lifetime
\* agree, after every call, on whether the projectile is active, whatever
\* wall-clock time passes in each run.
C8_ExpiryIgnoresWallClock ==
    \A r1 \in Runs, r2 \in Runs : ShotIsActive(shot[r1]) = ShotIsActive(shot[r2])

\* C11: an update() made while a wave is active checks the active-enemy set
\* once: with the set empty the wave becomes inactive and the completion hook
\* runs exactly once; with the set non-empty the wave stays active and the
\* hook does not run.  An update() made while no wave is active never runs
\* the hook, so the hook runs only on the step that ends the wave.
C11_CompletionOncePerWave ==
    /\ [](waveCall.op = "update" =>
             IF waveCall.wasActive
             THEN IF activeEnemies = {}
                  THEN ~isWaveActive /\ waveCall.completed = 1
                  ELSE isWaveActive /\ waveCall.completed = 0
             ELSE ~isWaveActive /\ waveCall.completed = 0)
    /\ [][(waveCall'.op = "update" /\ waveCall'.completed > 0) =>
             /\ isWaveActive /\ ~isWaveActive'
             /\ waveCall'.completed = 1
             /\ currentWave' = currentWave]_vars

\* Wave 1 was started and an update() completed it.
C11_Witness ==
    /\ waveCall.op = "update"
    /\ waveCall.wasActive
    /\ waveCall.completed = 1
    /\ currentWave = 1
    /\ ~isWaveActive

\* --------------------------------------------- DifficultyManager: claims

\* C12 as stated: the manager goes from level 1 to level 2 at the update()
\* call whose cumulative deltaTime (state.timePlayed) first reaches
\* timeInterval, and at no update() made before that.
C12_AdvanceOnCumulativeDelta ==
    (/\ diffCall.op = "update"
     /\ diffConfig.baseLevel = 1
     /\ diffConfig.maxLevel >= 2
     /\ diffCall.before.timePlayed < diffConfig.timeInterval) =>
        /\ diffCall.before.currentLevel = 1
        /\ diffState.currentLevel =
               IF diffState.timePlayed >= diffConfig.timeInterval THEN 2 ELSE 1

\* C12, amended: the manager goes from level 1 to level 2 exactly once, at the
\* update() call that finds Date.now() timeInterval or more past
\* lastUpdateTime (construction, reset or the last elapsed interval).  An
\* update() that finds less wall-clock time elapsed leaves the level alone,
\* whatever deltaTime it and the calls before it passed, and the advancing
\* call moves lastUpdateTime to the current time, so the same crossing does
\* not advance a second time.
C12_AdvanceOnWallClock ==
    diffCall.op = "update" =>
        /\ diffCall.elapsed < diffConfig.timeInterval =>
               /\ diffState.currentLevel = diffCall.before.currentLevel
               /\ lastUpdateTime = diffCall.now - diffCall.elapsed
        /\ diffCall.elapsed >= diffConfig.timeInterval =>
               /\ lastUpdateTime = diffCall.now
               /\ (diffCall.before.currentLevel = 1 /\ diffConfig.maxLevel >= 2) =>
                      diffState.currentLevel = 2

\* Level 2 was reached by an update() that found the interval elapsed on the
\* wall clock while the cumulative deltaTime is still below the interval.
C12_Witness ==
    /\ diffCall.op = "update"
    /\ diffCall.before.currentLevel = 1
    /\ diffState.currentLevel = 2
    /\ diffCall.elapsed >= diffConfig.timeInterval
    /\ diffState.timePlayed < diffConfig.timeInterval
    /\ lastUpdateTime = diffCall.now


\* C13 as stated: currentLevel never exceeds config.maxLevel; every update()
\* that finds an interval elapsed below maxLevel advances the level by one
\* table-defined step, until maxLevel is reached; at maxLevel an update()
\* leaves currentLevel and currentStep unchanged.
C13_AdvanceUntilMaxLevel ==
    /\ diffState.currentLevel <= diffConfig.maxLevel
    /\ diffCall.op = "update" =>
           /\ (/\ diffCall.elapsed >= diffConfig.timeInterval
               /\ diffCall.before.currentLevel < diffConfig.maxLevel) =>
                  /\ diffState.currentLevel = diffCall.before.currentLevel + 1
                  /\ diffState.currentStep.level = diffState.currentLevel
           /\ diffCall.before.currentLevel = diffConfig.maxLevel =>
                  /\ diffState.currentLevel = diffCall.before.currentLevel
                  /\ diffState.currentStep = diffCall.before.currentStep

\* C13, amended: currentLevel never exceeds config.maxLevel; an update() that
\* finds an interval elapsed advances the level by one step when the next
\* level is at most maxLevel and the table defines a step for it, and every
\* other update() leaves currentLevel and currentStep unchanged: the level
\* stops at maxLevel or at the last level the table defines a successor for,
\* whichever comes first (level 3 with the default table and maxLevel 10).
C13_AdvanceWhileTableDefines ==
    /\ diffState.currentLevel <= diffConfig.maxLevel
    /\ diffCall.op = "update" =>
           LET nextLevel == diffCall.before.currentLevel + 1
               advances == /\ diffCall.elapsed >= diffConfig.timeInterval
                           /\ ~diffCall.before.isMaxDifficulty
                           /\ nextLevel <= diffConfig.maxLevel
                           /\ \E i \in 1..Len(diffConfig.difficultySteps) :
                                  diffConfig.difficultySteps[i].level = nextLevel
           IN  IF advances
               THEN /\ diffState.currentLevel = nextLevel
                    /\ diffState.currentStep.level = nextLevel
               ELSE /\ diffState.currentLevel = diffCall.before.currentLevel
                    /\ diffState.currentStep = diffCall.before.currentStep

\* The level is at maxLevel, reached through an advance, and an update() that
\* found a further interval elapsed left it there.
C13_Witness ==
    /\ diffCall.op = "update"
    /\ diffCall.elapsed >= diffConfig.timeInterval
    /\ diffCall.before.currentLevel = diffConfig.maxLevel
    /\ diffConfig.maxLevel > diffConfig.baseLevel
    /\ diffState.currentLevel = diffConfig.maxLevel
    /\ diffState.isMaxDifficulty

\* ------------------------------------------------------ collision: claims

\* C14: for two boxes of positive size, CollisionSystem.checkAABBCollision
\* and the Collider box test report a collision exactly when the x-intervals
\* and the y-intervals both overlap: always for identical boxes, never when
\* the boxes are separated on the x axis or on the y axis.
C14_BoxOverlap ==
    LET positive == /\ shapeA.width > 0 /\ shapeA.height > 0
                    /\ shapeB.width > 0 /\ shapeB.height > 0
        xOverlap == Max(shapeA.position.x, shapeB.position.x)
                        < Min(shapeA.position.x + shapeA.width,
                              shapeB.position.x + shapeB.width)
        yOverlap == Max(shapeA.position.y, shapeB.position.y)
                        < Min(shapeA.position.y + shapeA.height,
                              shapeB.position.y + shapeB.height)
        xSeparated == \/ shapeA.position.x + shapeA.width < shapeB.position.x
                      \/ shapeB.position.x + shapeB.width < shapeA.position.x
        ySeparated == \/ shapeA.position.y + shapeA.height < shapeB.position.y
                      \/ shapeB.position.y + shapeB.height < shapeA.position.y
    IN  (/\ collCall.op \in {"checkAABBCollision", "Collider.checkCollision"}
         /\ shapeA.kind = "box" /\ shapeB.kind = "box"
         /\ positive) =>
            /\ ~collCall.thrown
            /\ collCall.hasCollision = (xOverlap /\ yOverlap)
            /\ shapeA = shapeB => collCall.hasCollision
            /\ (xSeparated \/ ySeparated) => ~collCall.hasCollision

\* Two different boxes that overlap on both axes were tested and reported as
\* colliding.
C14_Witness ==
    /\ collCall.op = "checkAABBCollision"
    /\ shapeA.kind = "box" /\ shapeB.kind = "box"
    /\ shapeA.position.x < shapeB.position.x
    /\ shapeA.position.y < shapeB.position.y
    /\ collCall.hasCollision
    /\ collCall.intersectionDepth.x > 0


\* C15: for two circles of positive radius, CollisionSystem.checkCircleCollision
\* and the Collider circle test report no collision when the distance between
\* the centres is the sum of the radii (tangency) or more, and a collision
\* when it is strictly smaller.  A Collider's centre is its position plus
\* its radius on each axis.
C15_CircleTangency ==
    LET dx == shapeB.position.x - shapeA.position.x
        dy == shapeB.position.y - shapeA.position.y
        rdx == dx + shapeB.radius - shapeA.radius
        rdy == dy + shapeB.radius - shapeA.radius
        sum == shapeA.radius + shapeB.radius
    IN  (/\ shapeA.kind = "circle" /\ shapeB.kind = "circle"
         /\ shapeA.radius > 0 /\ shapeB.radius > 0) =>
            /\ collCall.op = "checkCircleCollision" =>
                   /\ ~collCall.thrown
                   /\ collCall.hasCollision = (dx * dx + dy * dy < sum * sum)
            /\ collCall.op = "Collider.checkCollision" =>
                   /\ ~collCall.thrown
                   /\ collCall.hasCollision = (rdx * rdx + rdy * rdy < sum * sum)

\* Two circles exactly tangent to each other were tested by the
\* CollisionSystem and reported as not colliding.
C15_Witness ==
    /\ collCall.op = "checkCircleCollision"
    /\ shapeA.kind = "circle" /\ shapeB.kind = "circle"
    /\ shapeA.radius > 0 /\ shapeB.radius > 0
    /\ shapeA.position.y = shapeB.position.y
    /\ shapeB.position.x - shapeA.position.x = shapeA.radius + shapeB.radius
    /\ ~collCall.thrown
    /\ ~collCall.hasCollision

\* C16: CollisionSystem.checkCircleCollision on two circles with the same
\* centre returns hasCollision true with a normal and an intersectionDepth
\* that are numbers, never NaN.
C16_ConcentricWellDefined ==
    (/\ collCall.op = "checkCircleCollision"
     /\ shapeA.radius > 0 /\ shapeB.radius > 0
     /\ shapeA.position = shapeB.position) =>
        /\ ~collCall.thrown
        /\ collCall.hasCollision
        /\ ~collCall.normal.x.nan /\ ~collCall.normal.y.nan
        /\ ~collCall.intersectionDepth.x.nan /\ ~collCall.intersectionDepth.y.nan

\* C17: a shape with a non-positive width, height or radius is rejected: the
\* CollisionSystem checks throw, and so does the construction of a box
\* Collider with width <= 0 or height <= 0 or of a circle Collider with
\* radius <= 0.
C17_DegenerateRejected ==
    LET degenerate(s) == IF s.kind = "box" THEN s.width <= 0 \/ s.height <= 0
                         ELSE s.radius <= 0
    IN  (collCall.op # "none" /\ (degenerate(shapeA) \/ degenerate(shapeB))) =>
            collCall.thrown

\* ---------------------------------------------------------- Enemy: claims

\* C18 as stated: for a SIDE_TO_SIDE enemy with boundaryLeft <= boundaryRight,
\* after every update() that returns boundaryLeft <= x <= boundaryRight; when
\* the step reaches or passes boundaryRight x is boundaryRight and velocity.x
\* is negative, and when it reaches or passes boundaryLeft x is boundaryLeft
\* and velocity.x is positive.
C18_ReversesAtEachBoundary ==
    (/\ movementConfig.pattern = "SIDE_TO_SIDE"
     /\ enemyCall.op = "update" /\ ~enemyCall.thrown) =>
        /\ movementConfig.boundaryLeft <= enemy.position.x
        /\ enemy.position.x <= movementConfig.boundaryRight
        /\ enemyCall.moved >= movementConfig.boundaryRight =>
               /\ enemy.position.x = movementConfig.boundaryRight
               /\ enemy.velocity.x < 0
        /\ enemyCall.moved <= movementConfig.boundaryLeft =>
               /\ enemy.position.x = movementConfig.boundaryLeft
               /\ enemy.velocity.x > 0

\* C18, amended: for a SIDE_TO_SIDE enemy with boundaryLeft <= boundaryRight,
\* after every update() that returns boundaryLeft <= x <= boundaryRight.  A
\* step that reaches or passes boundaryLeft puts x on boundaryLeft and makes
\* velocity.x the speed, positive unless the speed is 0; a step that stays
\* right of boundaryLeft and reaches or passes boundaryRight puts x on
\* boundaryRight and makes velocity.x minus the speed, negative unless the
\* speed is 0.  With boundaryLeft = boundaryRight the left rule applies on
\* every step.
C18_StaysWithinBoundaries ==
    (/\ movementConfig.pattern = "SIDE_TO_SIDE"
     /\ enemyCall.op = "update" /\ ~enemyCall.thrown) =>
        /\ movementConfig.boundaryLeft <= enemy.position.x
        /\ enemy.position.x <= movementConfig.boundaryRight
        /\ enemyCall.moved <= movementConfig.boundaryLeft =>
               /\ enemy.position.x = movementConfig.boundaryLeft
               /\ enemy.velocity.x = movementConfig.speed
               /\ enemy.direction = 1
        /\ (/\ enemyCall.moved > movementConfig.boundaryLeft
            /\ enemyCall.moved >= movementConfig.boundaryRight) =>
               /\ enemy.position.x = movementConfig.boundaryRight
               /\ enemy.velocity.x = -movementConfig.speed
               /\ enemy.direction = -1
        /\ (/\ enemyCall.moved > movementConfig.boundaryLeft
            /\ enemyCall.moved < movementConfig.boundaryRight) =>
               /\ enemy.position.x = enemyCall.moved
               /\ enemy.velocity.x = enemyCall.velocityBefore

\* An enemy moving right at speed 2 between boundaries 0 and MaxBound passed
\* the right boundary and was put back on it with its velocity reversed.
C18_Witness ==
    /\ movementConfig.pattern = "SIDE_TO_SIDE"
    /\ movementConfig.boundaryLeft = 0 /\ movementConfig.boundaryRight = MaxBound
    /\ movementConfig.speed = 2
    /\ enemyCall.op = "update" /\ ~enemyCall.thrown
    /\ enemyCall.velocityBefore = 2
    /\ enemyCall.moved > movementConfig.boundaryRight
    /\ enemy.position.x = movementConfig.boundaryRight
    /\ enemy.velocity.x = -2


\* C19: the movement pattern is fixed at creation: whatever public operations
\* of the EnemyMovementSystem were called before, its configuration holds the
\* pattern it was constructed with and updatePosition() dispatches on it.
C19_PatternFixedAtCreation ==
    /\ movement.config.pattern = createdPattern
    /\ movementCall.op = "updatePosition" => movementCall.dispatched = createdPattern

\* ----------------------------------------------------- PlayerShip: claims

\* C20: an update() that no positive thrust was applied before, since the
\* update() before it, decays each velocity component by the deceleration
\* factor and makes it exactly 0 when its magnitude is then below 0.01, so
\* that a velocity of (0, 0) is kept by such an update().
C20_DecaysWithoutPositiveThrust ==
    [][(shipCall'.op = "update" /\ shipCall.thrustSince # "positive") =>
           /\ ship'.velocity.dx = decelerate(ship.velocity.dx)
           /\ ship'.velocity.dy = decelerate(ship.velocity.dy)]_vars


\* ------------------------------------------------------ PlayerShip: claims
\* C22: when update() returns, the position lies within the bounds in force
\* during that update, given that they are not empty (minX <= maxX and
\* minY <= maxY), whatever the velocity and the deltaTime.
C22_PositionWithinBounds ==
    (/\ shipCall.op = "update"
     /\ ship.bounds.minX <= ship.bounds.maxX
     /\ ship.bounds.minY <= ship.bounds.maxY)
        => /\ ship.bounds.minX <= ship.position.x /\ ship.position.x <= ship.bounds.maxX
           /\ ship.bounds.minY <= ship.position.y /\ ship.position.y <= ship.bounds.maxY

\* An update() whose motion left bounds that are not a single point, and
\* that enforceBoundaries brought back to their low side in x and their high
\* side in y.
C22_Witness ==
    /\ shipCall.op = "update" /\ shipCall.clamped
    /\ ship.bounds.minX < ship.bounds.maxX
    /\ ship.velocity.dx < 0 /\ ship.position.x = ship.bounds.minX
    /\ ship.velocity.dy > 0 /\ ship.position.y = ship.bounds.maxY


\* ---------------------------------------------- MovementController: claims
\* C21: after every MovementController.update call, for every configuration,
\* the velocity magnitude is at most config.maxSpeed (compared by squares).
C21_SpeedWithinMaximum ==
    controllerCall.op = "update"
        => controller.velocity.x * controller.velocity.x
               + controller.velocity.y * controller.velocity.y
           <= controller.config.maxSpeed * controller.config.maxSpeed

\* The PlayerShip's side of the speed limit: after any sequence of full
\* applyThrust calls and quarter turns sqrt(dx^2 + dy^2) <= MAX_SPEED, under
\* SpecThrust.
ShipSpeedWithinMaximum ==
    ~SpeedAbove(ship.velocity.dx, ship.velocity.dy, MOVEMENT_CONFIG.MAX_SPEED)

\* A state of SpecThrust in which clampVelocity has scaled a velocity that
\* lies off both axes.
ShipClampedOffAxis ==
    /\ shipCall.op = "applyThrust"
    /\ ship.velocity.dx > 0 /\ ship.velocity.dy > 0
    /\ ship.velocity.dx % (MOVEMENT_CONFIG.ACCELERATION * FULL_THRUST) # 0

\* C23: the stored rotation of a PlayerShip lies in [0, 2 pi) after any
\* sequence of rotate(direction) calls with direction in {-1, 1}.
C23_RotationNormalised ==
    0 <= ship.rotation /\ ship.rotation < TWO_PI


\* -------------------------------------------------- score managers: claims
\* C24: after construction and after any sequence of submitHighScore and
\* clearHighScores calls, the high-score list of the list-based ScoreManager
\* has at most maxHighScores entries and is sorted by score in non-increasing
\* order, whatever list was stored and whatever maxHighScores is configured.
C24_ListBoundedAndSorted ==
    managerImpl = "ScoreManager.ts"
        => /\ Len(manager.highScores) <= manager.maxHighScores
           /\ \A i \in 1..(Len(manager.highScores) - 1) :
                  manager.highScores[i].score >= manager.highScores[i + 1].score

\* C25: a numeric score manager that finds its item missing, not parseable
\* or not a number starts from a high score of 0, and its later score updates
\* keep the high score as without stored data: a number that is at least 0.
C25_StartsFromDefault ==
    (managerImpl \in {"part_000", "part_006"} /\ found \in {Missing, Garbage, ObjectText})
        => /\ manager.highScore.kind = "number"
           /\ managerCall.op = "none" => manager.highScore = Num(0)
           /\ manager.highScore.value >= 0

\* C26: an operation that notifies listeners (addPoints, resetScore,
\* subtractPoints, updateScore, a key or touch event) does not throw when a
\* listener throws, keeps its state change, and calls each listener of the
\* events it emits exactly once and no other listener.
C26_ListenerFailuresContained ==
    managerCall.notified
        => /\ ~managerCall.thrown
           /\ \A i \in 1..Len(listeners) :
                  managerCall.invoked[i]
                      = (IF listeners[i].event \in managerCall.events THEN 1 ELSE 0)
           /\ managerCall.op = "addPoints"
                  => manager.currentScore = managerCall.before + managerCall.arg
           /\ managerCall.op = "subtractPoints"
                  => manager.currentScore = Max(0, managerCall.before - managerCall.arg)
           /\ managerCall.op = "resetScore" => manager.currentScore = 0
           /\ managerCall.op = "updateScore" => manager.currentScore = managerCall.arg
           /\ managerCall.op \in {"keydown", "keyup"}
                  => manager.keyStates[managerCall.arg] = managerCall.op
           /\ managerCall.op \in {"touchstart", "touchend"}
                  => manager.touchStates[managerCall.arg] = managerCall.op

\* A score was added while the first of two listeners of the event throws:
\* both were called once.
C26_Witness ==
    /\ managerCall.notified /\ managerCall.op = "addPoints" /\ managerCall.arg > 0
    /\ Len(listeners) = 2
    /\ listeners[1].behaviour = "throws" /\ listeners[2].behaviour = "returns"
    /\ managerCall.invoked = <<1, 1>>
    /\ manager.currentScore = managerCall.before + managerCall.arg


\* ----------------------------------------------------- StateManager: claims
\* C27: under any interleaving of changeState, update and clear calls at most
\* one changeState is awaiting exit() or enter(); a changeState issued while
\* another one is awaiting rejects with 'State transition already in
\* progress' and calls exit or enter on no state; and update() is not invoked
\* on a state while a changeState is awaiting.
C27_OneTransitionAtATime ==
    /\ Len(transitions) <= 1
    /\ (smCall.op = "changeState" /\ smCall.inFlight > 0)
           => smCall.rejected = "in progress" /\ smCall.calls = {}
    /\ (smCall.op = "update" /\ smCall.inFlight > 0) => smCall.calls = {}

\* C29: when exit() of the current state or enter() of the target state
\* rejects, the current state name after the failed changeState is the one
\* before the call and no transition is marked in progress.
C29_FailedTransitionRollsBack ==
    smCall.op = "changeStateFailed"
        => /\ stateManager.currentStateName = smCall.before
           /\ ~stateManager.isTransitioning


\* C28: at most one tick callback is pending with the host scheduler after
\* any sequence of start(), stop() and frame callbacks.
C28_OnePendingTick == pendingFrames <= 1


\* C30: loadAsset never rejects, for the caller that started a load and for
\* a caller that joined it, and no load calls the underlying loader more
\* than MAX_RETRIES times.
C30_LoadAssetNeverRejects ==
    /\ \A i \in 1..Len(callers) : callers[i].outcome # "rejected"
    /\ \A p \in 1..Len(loadPromises) :
          loadPromises[p].loaderCalls <= CACHE_SETTINGS.MAX_RETRIES


\* C31: once a load has settled and every loadAsset call that awaited it has
\* returned, _loadingPromises holds no entry for its url, so that a later
\* loadAsset of the url starts a new load.
C31_InFlightTableCleared ==
    \A url \in Urls :
       assetLoader.loadingPromises[url] # 0
          => \/ loadPromises[assetLoader.loadingPromises[url]].status \in {"loading", "waiting"}
             \/ \E i \in 1..Len(callers) :
                   /\ callers[i].promise = assetLoader.loadingPromises[url]
                   /\ callers[i].outcome = "pending"


\* C33: the cache of the ResourceLoader never holds more than maxCacheSize
\* assets, whatever the calls and the timing of the loads.
C33_CacheWithinMaximum == getCacheSize <= maxCacheSize


\* C32: at most one fade timer runs at a time; a playMusic or stopMusic
\* call made while a fade is in progress starts no fade and leaves
\* currentMusic as it was; and when a fade ends currentMusic is the track
\* the cross-fade was started for and is playing, or null after a fade-out.
C32_OneFadeAtATime ==
    /\ Len(fades) <= 1
    /\ (audioCall.op \in {"playMusic", "stopMusic"} /\ audioCall.fadesBefore > 0)
          => ~audioCall.started /\ audio.currentMusic = audioCall.before
    /\ (audioCall.op = "fadeEnded" /\ audioCall.kind = "cross")
          => /\ audio.currentMusic = audioCall.startedFor
             /\ howls[audio.currentMusic].playing
    /\ (audioCall.op = "fadeEnded" /\ audioCall.kind = "out")
          => /\ ~audioCall.thrown
             /\ audio.currentMusic = NullHowl
             /\ ~howls[audioCall.startedFor].playing


\* C34: after every ProjectileManager operation a projectile is in the
\* pool's active set if and only if its own isActive flag is true.
C34_ActiveSetMatchesFlags ==
    \A slot \in Slots : slot \in poolActive <=> projectiles[slot].isActive


\* C35: a startNextWave() that returns false leaves getCurrentWave() and
\* isWaveInProgress() as they were before the call.
C35_FailedStartLeavesWaveUnchanged ==
    (waveCall.op = "startNextWave" /\ ~waveCall.ret)
        => /\ currentWave = waveCall.waveBefore
           /\ isWaveActive = waveCall.wasActive


\* C36: for the single-high-score ScoreManagers that found no or a numeric
\* high score in storage, highScore >= currentScore after every operation,
\* and also when addPoints of part_000 notifies its listeners, which it
\* does with the score already raised and the high score still as before.
C36_HighScoreAtLeastCurrent ==
    /\ []((managerImpl \in {"part_000", "part_006"}
             /\ found.kind \in {"missing", "unavailable", "number"})
            => /\ manager.highScore.kind = "number"
               /\ manager.highScore.value >= manager.currentScore)
    /\ [][(/\ managerImpl = "part_000"
           /\ found.kind \in {"missing", "unavailable", "number"}
           /\ managerCall'.op = "addPoints"
           /\ managerCall'.notified
           /\ Len(listeners) > 0)
             => /\ manager.highScore.kind = "number"
                /\ manager.highScore.value >= manager'.currentScore]_vars

\* C37: the current score of every score manager is never negative.
C37_ScoreNeverNegative ==
    managerImpl \in {"part_000", "part_006"} => manager.currentScore >= 0


\* C38: shoot() returns null if and only if it is called less than
\* shootCooldown after the previous shot; once the cooldown has elapsed it
\* returns a Projectile.
C38_NullOnlyWithinCooldown ==
    playerCall.op = "shoot"
        => (playerCall.ret = "null" <=> playerCall.sinceLast < shootCooldown)


\* C39: the array update() returns holds no id twice, and no id that an
\* earlier update() call returned.
C39_ExpiredReportedOnce ==
    psCall.op = "update"
        => /\ \A j, k \in 1..Len(psCall.returned) :
                 j # k => psCall.returned[j] # psCall.returned[k]
           /\ \A k \in 1..Len(psCall.returned) : psCall.returned[k] \notin psCall.earlier


\* C40: an action of getState() is active exactly when some key mapped to
\* it had a keydown event with no later keyup event.
C40_ActiveExactlyWhenKeyHeld ==
    \A action \in KeyActions :
       keyboard.state[action] <=> (held \cap keyboard.config[action] # {})

====
